---- MODULE Spec2Model ----
(***************************************************************************)
(* Model of the argument entity (core/argument.js) and of the argument     *)
(* graph (core/argumentGraph.js) of the structured argumentation tool.     *)
(*                                                                         *)
(* JavaScript values are encoded as follows.                               *)
(*   - strings are TLA+ strings; the values undefined and null of a        *)
(*     string-valued field are the sentinels Undefined and Null;           *)
(*   - a field that is meant to hold an array is a record                  *)
(*     [isArray, items]: Arr(s) is the array s, NoArr is undefined;        *)
(*   - a confidence is a record [kind, val]: Num(n) is the number n/10,    *)
(*     Undef is undefined and NaN is the not-a-number value;               *)
(*   - an exception is the message of the thrown Error, NoError is a       *)
(*     normal return.                                                      *)
(***************************************************************************)
EXTENDS Integers, Sequences, FiniteSets, TLC

VARIABLES
    arguments,      \* ArgumentGraph.arguments: the Map id -> Argument, in insertion order
    adjacencyList,  \* ArgumentGraph.adjacencyList: the Map id -> relationship record
    inserted,       \* history: ids whose addArgument call returned normally
    last,           \* history: the last call made and how it ended
    arg,            \* a free-standing Argument object (NoArgument before construction)
    now,            \* the clock read by new Date()
    dialecticHistory, \* DialecticalEngine.dialecticHistory
    result,         \* what the last call returned, when it was a query (NoResult otherwise)
    stack           \* the frames of the findPaths calls that have not returned, the outermost first

vars == <<arguments, adjacencyList, inserted, last, arg, now, dialecticHistory, result, stack>>

graphVars == <<arguments, adjacencyList, inserted>>


----------------------------------------------------------------------------
(* Bounds *)

\* most references (supports, contradicts and respondsTo together) declared in
\* the data given to ArgumentGraph.addArgument
MaxRefs == 1

\* most edges the relationship table holds after a relationship-add call
MaxEdges == 1

\* last value of the clock
MaxClock == 1

\* longest strengths / weaknesses list addStrength / addWeakness is called on
MaxNotes == 1

\* the ids callers use
Ids == {"a", "b"}

\* an id that is never stored
UnknownId == "z"

----------------------------------------------------------------------------
(* JavaScript values *)

Undefined == "undefined"

Null == "null"

\* !v for a string-valued field
Falsy(v) == v \in {Undefined, Null, ""}

Arr(s) == [isArray |-> TRUE, items |-> s]

NoArr == [isArray |-> FALSE, items |-> <<>>]

\* v || []
OrEmpty(v) == IF v.isArray THEN v.items ELSE <<>>

\* v || null
OrNull(v) == IF Falsy(v) THEN Null ELSE v

Num(n) == [kind |-> "number", val |-> n]

Undef == [kind |-> "undefined", val |-> 0]

NaN == [kind |-> "NaN", val |-> 0]

\* x < y and x > y on numbers in tenths: a comparison with undefined or NaN is false
JsLt(x, y) == x.kind = "number" /\ y.kind = "number" /\ x.val < y.val

JsGt(x, y) == x.kind = "number" /\ y.kind = "number" /\ x.val > y.val

\* Array.prototype.includes
Includes(s, x) == \E i \in 1..Len(s) : s[i] = x

\* sequences over S of length at most n
SeqsUpTo(S, n) == UNION {[1..k -> S] : k \in 0..n}

----------------------------------------------------------------------------
(* Errors *)

NoError == "none"

ErrIdRequired == "Argument ID is required"

ErrClaimRequired == "Claim is required"

ErrPremisesArray == "Premises must be an array"

ErrConclusionRequired == "Conclusion is required"

ErrTypeRequired == "Argument type is required"

ErrInvalidType == "Invalid argument type"

ErrConfidenceRange == "Confidence must be between 0 and 1"

ErrAlreadyExists == "Argument already exists"

ErrBothMustExist == "Both arguments must exist in the graph"

\* the failures the specification calls ValidationError
ValidationErrors == {ErrIdRequired, ErrClaimRequired, ErrPremisesArray, ErrConclusionRequired,
                     ErrTypeRequired, ErrInvalidType, ErrConfidenceRange}

----------------------------------------------------------------------------
(* Argument *)

validTypes == <<"thesis", "antithesis", "synthesis", "objection", "rebuttal">>

\* validateArgument without its check of the type against validTypes
validateArgumentAnyType(data) ==
    IF Falsy(data.argumentId) THEN ErrIdRequired
    ELSE IF Falsy(data.claim) THEN ErrClaimRequired
    ELSE IF ~data.premises.isArray THEN ErrPremisesArray
    ELSE IF Falsy(data.conclusion) THEN ErrConclusionRequired
    ELSE IF Falsy(data.argumentType) THEN ErrTypeRequired
    ELSE IF data.confidence # Undef /\ (JsLt(data.confidence, Num(0)) \/ JsGt(data.confidence, Num(10)))
         THEN ErrConfidenceRange
    ELSE NoError

\* validateArgument without its check that premises is an array
validateArgumentAnyPremises(data) ==
    IF Falsy(data.argumentId) THEN ErrIdRequired
    ELSE IF Falsy(data.claim) THEN ErrClaimRequired
    ELSE IF Falsy(data.conclusion) THEN ErrConclusionRequired
    ELSE IF Falsy(data.argumentType) THEN ErrTypeRequired
    ELSE IF ~Includes(validTypes, data.argumentType) THEN ErrInvalidType
    ELSE IF data.confidence # Undef /\ (JsLt(data.confidence, Num(0)) \/ JsGt(data.confidence, Num(10)))
         THEN ErrConfidenceRange
    ELSE NoError

\* the message of the Error thrown by validateArgument, NoError when it returns
validateArgument(data) ==
    IF Falsy(data.argumentId) THEN ErrIdRequired
    ELSE IF Falsy(data.claim) THEN ErrClaimRequired
    ELSE IF ~data.premises.isArray THEN ErrPremisesArray
    ELSE IF Falsy(data.conclusion) THEN ErrConclusionRequired
    ELSE IF Falsy(data.argumentType) THEN ErrTypeRequired
    ELSE IF ~Includes(validTypes, data.argumentType) THEN ErrInvalidType
    ELSE IF data.confidence # Undef /\ (JsLt(data.confidence, Num(0)) \/ JsGt(data.confidence, Num(10)))
         THEN ErrConfidenceRange
    ELSE NoError

\* the object built by the constructor once validateArgument has returned
Argument(data, date) ==
    [id           |-> data.argumentId,
     claim        |-> data.claim,
     premises     |-> data.premises,
     conclusion   |-> data.conclusion,
     type         |-> data.argumentType,
     confidence   |-> data.confidence,
     respondsTo   |-> OrNull(data.respondsTo),
     supports     |-> OrEmpty(data.supports),
     contradicts  |-> OrEmpty(data.contradicts),
     strengths    |-> OrEmpty(data.strengths),
     weaknesses   |-> OrEmpty(data.weaknesses),
     createdAt    |-> date,
     lastModified |-> date]

\* A call on an Argument yields [arg, err]: the object after the call and the
\* message of the Error thrown (NoError when the call returns).

updateConfidence(a, newConfidence, date) ==
    IF JsLt(newConfidence, Num(0)) \/ JsGt(newConfidence, Num(10))
    THEN [arg |-> a, err |-> ErrConfidenceRange]
    ELSE [arg |-> [a EXCEPT !.confidence = newConfidence, !.lastModified = date], err |-> NoError]

addStrength(a, strength, date) ==
    [arg |-> [a EXCEPT !.strengths = Append(@, strength), !.lastModified = date], err |-> NoError]

addWeakness(a, weakness, date) ==
    [arg |-> [a EXCEPT !.weaknesses = Append(@, weakness), !.lastModified = date], err |-> NoError]

----------------------------------------------------------------------------
(* ArgumentGraph *)

\* the keys of the arguments Map
StoredIds(args) == {args[i].id : i \in 1..Len(args)}

\* this.arguments.has(id)
Has(args, id) == id \in StoredIds(args)

\* this.arguments.get(id), for a stored id
\* the position of a stored id in the insertion order of the arguments Map
IndexOf(args, id) == CHOOSE i \in 1..Len(args) : args[i].id = id

\* this.arguments.get(id), for a stored id
getArgument(args, id) == args[IndexOf(args, id)]

\* this.arguments.set(argument.id, argument): a new key is appended, the value of
\* an existing key is replaced in place
MapSet(args, argument) ==
    IF Has(args, argument.id)
    THEN [i \in 1..Len(args) |-> IF args[i].id = argument.id THEN argument ELSE args[i]]
    ELSE Append(args, argument)

\* the relationship record addArgument registers for a new id
EmptyRecord == [supports |-> <<>>, contradicts |-> <<>>, respondsTo |-> Null]

\* A graph value g is [arguments, adjacencyList, err]: the two Maps and the
\* exception in flight (NoError when none); a call made while an exception is
\* in flight is skipped.

\* addSupportsRelationship checking only that the supporter exists
addSupportsRelationshipUnchecked(g, supporterId, supportedId) ==
    IF g.err # NoError THEN g
    ELSE IF ~Has(g.arguments, supporterId)
         THEN [g EXCEPT !.err = ErrBothMustExist]
    ELSE [g EXCEPT !.adjacencyList[supporterId].supports = Append(@, supportedId)]

addSupportsRelationship(g, supporterId, supportedId) ==
    IF g.err # NoError THEN g
    ELSE IF ~Has(g.arguments, supporterId) \/ ~Has(g.arguments, supportedId)
         THEN [g EXCEPT !.err = ErrBothMustExist]
    ELSE [g EXCEPT !.adjacencyList[supporterId].supports = Append(@, supportedId)]

\* addContradictsRelationship checking only that the contradictor exists
addContradictsRelationshipUnchecked(g, contradictorId, contradictedId) ==
    IF g.err # NoError THEN g
    ELSE IF ~Has(g.arguments, contradictorId)
         THEN [g EXCEPT !.err = ErrBothMustExist]
    ELSE [g EXCEPT !.adjacencyList[contradictorId].contradicts = Append(@, contradictedId)]

addContradictsRelationship(g, contradictorId, contradictedId) ==
    IF g.err # NoError THEN g
    ELSE IF ~Has(g.arguments, contradictorId) \/ ~Has(g.arguments, contradictedId)
         THEN [g EXCEPT !.err = ErrBothMustExist]
    ELSE [g EXCEPT !.adjacencyList[contradictorId].contradicts = Append(@, contradictedId)]

addRespondsToRelationship(g, responderId, respondeeId) ==
    IF g.err # NoError THEN g
    ELSE IF ~Has(g.arguments, responderId) \/ ~Has(g.arguments, respondeeId)
         THEN [g EXCEPT !.err = ErrBothMustExist]
    ELSE [g EXCEPT !.adjacencyList[responderId].respondsTo = respondeeId]

\* the call addArgument makes for one declared reference of a kind
addRelationship(kind, g, fromId, toId) ==
    IF kind = "supports" THEN addSupportsRelationship(g, fromId, toId)
    ELSE addContradictsRelationship(g, fromId, toId)

\* argument[kind].forEach(toId => addRelationship(kind, g, id, toId))
RECURSIVE ForEach(_, _, _, _)
ForEach(kind, g, id, list) ==
    IF list = <<>> THEN g
    ELSE ForEach(kind, addRelationship(kind, g, id, Head(list)), id, Tail(list))

\* register without the duplicate check: a stored id is registered again
registerWithoutDuplicateCheck(g, argument) ==
    LET g0 == [g EXCEPT !.arguments = MapSet(@, argument),
                        !.adjacencyList = (argument.id :> EmptyRecord) @@ @]
        g1 == ForEach("supports", g0, argument.id, argument.supports)
        g2 == ForEach("contradicts", g1, argument.id, argument.contradicts)
    IN  IF ~Falsy(argument.respondsTo)
        THEN addRespondsToRelationship(g2, argument.id, argument.respondsTo)
        ELSE g2

\* the registration of a validated, constructed argument (addArgument from its duplicate check on)
register(g, argument) ==
    IF Has(g.arguments, argument.id) THEN [g EXCEPT !.err = ErrAlreadyExists]
    ELSE LET g0 == [g EXCEPT !.arguments = MapSet(@, argument),
                             !.adjacencyList = (argument.id :> EmptyRecord) @@ @]
             g1 == ForEach("supports", g0, argument.id, argument.supports)
             g2 == ForEach("contradicts", g1, argument.id, argument.contradicts)
         IN  IF ~Falsy(argument.respondsTo)
             THEN addRespondsToRelationship(g2, argument.id, argument.respondsTo)
             ELSE g2

\* addArgument(argumentData) on the graph g
addArgument(g, argumentData, date) ==
    IF validateArgument(argumentData) # NoError
    THEN [g EXCEPT !.err = validateArgument(argumentData)]
    ELSE register(g, Argument(argumentData, date))

\* getSupporters(argumentId): the stored arguments, in insertion order, that pass the filter
getSupporters(args, argumentId) ==
    SelectSeq(args, LAMBDA a : Includes(a.supports, argumentId))

getContradictors(args, argumentId) ==
    SelectSeq(args, LAMBDA a : Includes(a.contradicts, argumentId))

getResponders(args, argumentId) ==
    SelectSeq(args, LAMBDA a : a.respondsTo = argumentId)

\* getArgumentsByType(type): the stored arguments of a type, in insertion order
getArgumentsByType(args, type) ==
    SelectSeq(args, LAMBDA a : a.type = type)

\* allConnected without the respondsTo edge
allConnectedWithoutRespondsTo(adj, startId) ==
    IF startId \notin DOMAIN adj THEN <<>>
    ELSE adj[startId].supports \o adj[startId].contradicts

\* allConnected in findPaths: the targets of the outgoing edges of startId, the
\* supports first, then the contradicts, then the respondsTo; none for an id
\* without a relationship record
allConnected(adj, startId) ==
    IF startId \notin DOMAIN adj THEN <<>>
    ELSE adj[startId].supports \o adj[startId].contradicts
         \o (IF Falsy(adj[startId].respondsTo) THEN <<>> ELSE <<adj[startId].respondsTo>>)

\* findPaths(startId, endId, visited): the sequence of paths returned; visited is
\* the set handed to the call, a copy of the caller's, to which startId is added.
\* findPathsFrom is the loop over the rest of allConnected.
RECURSIVE findPaths(_, _, _, _)
RECURSIVE findPathsFrom(_, _, _, _, _)
findPaths(adj, startId, endId, visited) ==
    IF startId = endId THEN << <<startId>> >>
    ELSE findPathsFrom(adj, startId, endId, visited \cup {startId}, allConnected(adj, startId))

findPathsFrom(adj, startId, endId, visited, rest) ==
    IF rest = <<>> THEN <<>>
    ELSE LET nextId == Head(rest)
             subpaths == IF nextId \notin visited
                         THEN findPaths(adj, nextId, endId, visited)
                         ELSE <<>>
         IN  [i \in 1..Len(subpaths) |-> <<startId>> \o subpaths[i]]
             \o findPathsFrom(adj, startId, endId, visited, Tail(rest))

\* Argument.toJSON(): the record of an Argument, which carries each of its fields
toJSON(a) ==
    [id           |-> a.id,
     claim        |-> a.claim,
     premises     |-> a.premises,
     conclusion   |-> a.conclusion,
     type         |-> a.type,
     confidence   |-> a.confidence,
     respondsTo   |-> a.respondsTo,
     supports     |-> a.supports,
     contradicts  |-> a.contradicts,
     strengths    |-> a.strengths,
     weaknesses   |-> a.weaknesses,
     createdAt    |-> a.createdAt,
     lastModified |-> a.lastModified]

\* the {from, to, type} entries of one relationship record: one per supports
\* edge, then one per contradicts edge, then one for the respondsTo edge
EntriesOf(fromId, relations) ==
    [i \in 1..Len(relations.supports) |->
        [from |-> fromId, to |-> relations.supports[i], type |-> "support"]]
    \o [i \in 1..Len(relations.contradicts) |->
        [from |-> fromId, to |-> relations.contradicts[i], type |-> "contradict"]]
    \o (IF Falsy(relations.respondsTo) THEN <<>>
        ELSE <<[from |-> fromId, to |-> relations.respondsTo, type |-> "respond"]>>)

\* the relationships of the interchange shape: the entries of the records of the
\* relationship table, in the order of its keys (the insertion order)
RECURSIVE Relationships(_, _)
Relationships(adj, args) ==
    IF args = <<>> THEN <<>>
    ELSE (IF Head(args).id \in DOMAIN adj THEN EntriesOf(Head(args).id, adj[Head(args).id]) ELSE <<>>)
         \o Relationships(adj, Tail(args))

\* the interchange shape of a graph
Export(g) ==
    [arguments |-> [i \in 1..Len(g.arguments) |-> toJSON(g.arguments[i])],
     relationships |-> Relationships(g.adjacencyList, g.arguments)]

\* the construction data that gives an Argument the fields of a record
RecordData(record) ==
    [argumentId   |-> record.id,
     claim        |-> record.claim,
     premises     |-> record.premises,
     conclusion   |-> record.conclusion,
     argumentType |-> record.type,
     confidence   |-> record.confidence,
     respondsTo   |-> record.respondsTo,
     supports     |-> Arr(record.supports),
     contradicts  |-> Arr(record.contradicts),
     strengths    |-> Arr(record.strengths),
     weaknesses   |-> Arr(record.weaknesses)]

\* addArgument for each record, in order
RECURSIVE AddRecords(_, _, _)
AddRecords(g, records, date) ==
    IF records = <<>> \/ g.err # NoError THEN g
    ELSE AddRecords(addArgument(g, RecordData(Head(records)), date), Tail(records), date)

\* the relationship-add call for one entry
AddEntry(g, entry) ==
    IF entry.type = "support" THEN addSupportsRelationship(g, entry.from, entry.to)
    ELSE IF entry.type = "contradict" THEN addContradictsRelationship(g, entry.from, entry.to)
    ELSE addRespondsToRelationship(g, entry.from, entry.to)

\* the relationship-add call for each entry, in order
RECURSIVE AddEntries(_, _)
AddEntries(g, entries) ==
    IF entries = <<>> THEN g
    ELSE AddEntries(AddEntry(g, Head(entries)), Tail(entries))

\* a new graph
EmptyGraph == [arguments |-> <<>>, adjacencyList |-> <<>>, err |-> NoError]

\* the graph rebuilt from an interchange shape: addArgument for each record,
\* then the relationship-add call for each entry
Import(data, date) ==
    AddEntries(AddRecords(EmptyGraph, data.arguments, date), data.relationships)

----------------------------------------------------------------------------
(* Text *)

\* The tokens of a text: its maximal runs of word characters and the punctuation
\* marks between them, in order. The texts of the model other than those listed
\* are single words.
Tokens(text) ==
    CASE text = "Taxes fund schools" -> <<"Taxes", "fund", "schools">>
      [] text = "taxes fund schools" -> <<"taxes", "fund", "schools">>
      [] text = "it is" -> <<"it", "is">>
      [] text = "taxes fund" -> <<"taxes", "fund">>
      [] text = "no taxes fund schools well" -> <<"no", "taxes", "fund", "schools", "well">>
      [] text = "50% of schools may close (Smith 2020)"
            -> <<"50", "%", "of", "schools", "may", "close", "(", "Smith", "2020", ")">>
      [] text = "everyone says either taxes or schools"
            -> <<"everyone", "says", "either", "taxes", "or", "schools">>
      [] OTHER -> <<text>>

\* String.prototype.toLowerCase on a token
toLowerCase(token) ==
    CASE token = "Taxes" -> "taxes"
      [] token = "Smith" -> "smith"
      [] OTHER -> token

\* the tokens of a text in lower case
LowerTokens(text) == [i \in 1..Len(Tokens(text)) |-> toLowerCase(Tokens(text)[i])]

\* the tokens that are punctuation marks (\W), the others are words (\w+)
Punctuation == {"%", "(", ")", ".", ","}

\* the tokens matched by \d+ and those holding four digits in a row (\d{4})
Numerals == {"50", "2020"}

FourDigits == {"2020"}

\* the stop words of Evaluator.extractKeywords
stopWords == {"the", "be", "to", "of", "and", "a", "in", "that", "is", "was", "for", "it"}

\* Evaluator.extractKeywords(text): lower case, split at \W+, keep the words
\* longer than 2 that are no stop words
extractKeywords(text) ==
    SelectSeq(LowerTokens(text),
              LAMBDA word : word \notin Punctuation /\ Len(word) > 2 /\ word \notin stopWords)

\* premises.flatMap(p => extractKeywords(p))
RECURSIVE FlatMapKeywords(_)
FlatMapKeywords(premises) ==
    IF premises = <<>> THEN <<>>
    ELSE extractKeywords(Head(premises)) \o FlatMapKeywords(Tail(premises))

\* the tokens of premises.join(' ')
RECURSIVE JoinTokens(_)
JoinTokens(premises) ==
    IF premises = <<>> THEN <<>>
    ELSE LowerTokens(Head(premises)) \o JoinTokens(Tail(premises))

\* the number of elements of a sequence that satisfy Includes(other, _)
CountIncluded(s, other) == Len(SelectSeq(s, LAMBDA kw : Includes(other, kw)))

\* a word w of the set first is followed, after white space, by a word of the set second
Followed(t, first, second) ==
    \E i \in 1..(Len(t) - 1) : t[i] \in first /\ t[i + 1] \in second

\* containsData: /\b\d+(\.\d+)?(%|\s*(percent|percentage|data|study|research|evidence))/i
containsData(text) ==
    Followed(LowerTokens(text), Numerals,
             {"%", "percent", "percentage", "data", "study", "research", "evidence"})

\* containsCitations: /\(.*\d{4}.*\)|et\s+al\.|according\s+to/i
containsCitations(text) ==
    LET t == LowerTokens(text)
    IN  \/ \E i, j, k \in 1..Len(t) :
            i < j /\ j < k /\ t[i] = "(" /\ t[j] \in FourDigits /\ t[k] = ")"
        \/ \E i \in 1..(Len(t) - 2) : t[i] = "et" /\ t[i + 1] = "al" /\ t[i + 2] = "."
        \/ Followed(t, {"according"}, {"to"})

\* containsQualifiers:
\* /\b(might|may|could|possibly|perhaps|likely|probably|generally|tends?\s+to)\b/i
containsQualifiers(text) ==
    LET t == LowerTokens(text)
    IN  \/ \E i \in 1..Len(t) :
            t[i] \in {"might", "may", "could", "possibly", "perhaps", "likely",
                      "probably", "generally"}
        \/ Followed(t, {"tend", "tends"}, {"to"})

----------------------------------------------------------------------------
(* Numbers *)

\* A score is a record [kind, val] like a confidence, but its val counts units
\* of 1/Unit; arithmetic is exact (no rounding of floating point numbers).
Unit == 6000

\* a confidence as a score; undefined becomes NaN in arithmetic
AsScore(c) == IF c.kind = "number" THEN Num(c.val * (Unit \div 10)) ELSE NaN

\* x + y, x - y
Plus(x, y) == IF x.kind = "number" /\ y.kind = "number" THEN Num(x.val + y.val) ELSE NaN

Minus(x, y) == IF x.kind = "number" /\ y.kind = "number" THEN Num(x.val - y.val) ELSE NaN

\* Math.min(x, y), Math.max(x, y): NaN when an argument is NaN
MathMin(x, y) ==
    IF x.kind # "number" \/ y.kind # "number" THEN NaN
    ELSE IF x.val <= y.val THEN x ELSE y

MathMax(x, y) ==
    IF x.kind # "number" \/ y.kind # "number" THEN NaN
    ELSE IF x.val >= y.val THEN x ELSE y

\* (n / d) * (tenths / 10) for two counts n and d: 0 / 0 is NaN
Ratio(n, d, tenths) ==
    IF d = 0 THEN NaN ELSE Num((n * tenths * (Unit \div 10)) \div d)

\* Math.max(0, Math.min(1, x))
Clamp01(x) == MathMax(Num(0), MathMin(Num(Unit), x))

----------------------------------------------------------------------------
(* Evaluator *)

\* detectFallacies(argument).length: each of the three patterns counts once, on
\* the text claim + ' ' + premises.join(' ') + ' ' + conclusion
detectFallacies(argument) ==
    LET t == LowerTokens(argument.claim) \o JoinTokens(argument.premises.items)
             \o LowerTokens(argument.conclusion)
        adHominem == \E i \in 1..(Len(t) - 2) :
                        t[i] = "people" /\ t[i + 1] = "who"
                        /\ t[i + 2] \in {"believe", "think", "say"}
        strawMan == \/ Followed(t, {"nobody", "everyone"}, {"thinks", "believes", "says"})
                    \/ \E i \in 1..(Len(t) - 2) :
                        t[i] = "no" /\ t[i + 1] = "one"
                        /\ t[i + 2] \in {"thinks", "believes", "says"}
        falseDichotomy == \E i, j \in 1..Len(t) :
                            /\ i < j
                            /\ t[i] \in {"either", "only"}
                            /\ t[i + 1] \notin Punctuation
                            /\ t[j] = "or"
    IN  (IF adHominem THEN 1 ELSE 0) + (IF strawMan THEN 1 ELSE 0)
        + (IF falseDichotomy THEN 1 ELSE 0)

checkCoherence(argument) ==
    LET claimKeywords == extractKeywords(argument.claim)
        premiseKeywords == FlatMapKeywords(argument.premises.items)
        conclusionKeywords == extractKeywords(argument.conclusion)
        overlap == Len(SelectSeq(claimKeywords,
                                 LAMBDA kw : Includes(premiseKeywords, kw)
                                             \/ Includes(conclusionKeywords, kw)))
    IN  overlap >= 2

evaluateLogicalStructure(argument) ==
    LET conclusionKeywords == extractKeywords(argument.conclusion)
        premiseKeywords == FlatMapKeywords(argument.premises.items)
        keywordOverlap == CountIncluded(conclusionKeywords, premiseKeywords)
        score1 == Plus(Num(0), Ratio(keywordOverlap, Len(conclusionKeywords), 4))
        score2 == Minus(score1, Num(detectFallacies(argument) * (Unit \div 10)))
        score3 == IF checkCoherence(argument) THEN Plus(score2, Num(3 * (Unit \div 10))) ELSE score2
        score4 == IF Len(argument.premises.items) >= 2
                  THEN Plus(score3, Num(2 * (Unit \div 10)))
                  ELSE score3
    IN  Clamp01(score4)

\* what one premise adds to the evidence score
EvidenceOf(premise) ==
    (IF containsData(premise) THEN 20 * (Unit \div 100) ELSE 0)
    + (IF containsCitations(premise) THEN 15 * (Unit \div 100) ELSE 0)
    + (IF containsQualifiers(premise) THEN 10 * (Unit \div 100) ELSE 0)

RECURSIVE SumEvidence(_)
SumEvidence(premises) ==
    IF premises = <<>> THEN 0 ELSE EvidenceOf(Head(premises)) + SumEvidence(Tail(premises))

evaluateEvidence(argument) ==
    MathMin(Num(Unit), Num(SumEvidence(argument.premises.items)))

\* supporters.reduce((acc, curr) => acc + curr.confidence, acc)
RECURSIVE ReduceConfidence(_, _)
ReduceConfidence(acc, list) ==
    IF list = <<>> THEN acc
    ELSE ReduceConfidence(Plus(acc, AsScore(Head(list).confidence)), Tail(list))

\* x / n * 0.2 for a count n > 0
FifthOfAverage(x, n) == IF x.kind = "number" THEN Num(x.val \div (5 * n)) ELSE NaN

\* evaluateSupport(argument, graph), args being graph.arguments
evaluateSupport(argument, args) ==
    LET supporters == getSupporters(args, argument.id)
        contradictors == getContradictors(args, argument.id)
        score1 == Plus(Num(0), MathMin(Num(Len(supporters) * 20 * (Unit \div 100)),
                                       Num(60 * (Unit \div 100))))
        score2 == Minus(score1, MathMin(Num(Len(contradictors) * 15 * (Unit \div 100)),
                                        Num(45 * (Unit \div 100))))
        total == ReduceConfidence(Num(0), supporters)
        score3 == Plus(score2, FifthOfAverage(total, IF Len(supporters) = 0 THEN 1
                                                     ELSE Len(supporters)))
    IN  Clamp01(score3)

\* the thresholds of identifyStrengths and identifyWeaknesses, as scores
Tenths(n) == Num(n * (Unit \div 10))

\* s with x pushed when the condition holds
PushIf(s, cond, x) == IF cond THEN Append(s, x) ELSE s

identifyStrengths(argument, evaluation) ==
    LET s1 == PushIf(<<>>, JsGt(evaluation.logicalScore, Tenths(7)), "Strong logical structure")
        s2 == PushIf(s1, JsGt(evaluation.evidenceScore, Tenths(6)), "Well-supported with evidence")
        s3 == PushIf(s2, JsGt(evaluation.supportScore, Tenths(5)),
                     "Strong support from related arguments")
        s4 == PushIf(s3, JsGt(argument.confidence, Num(8)), "High confidence level")
    IN  PushIf(s4, Len(argument.premises.items) >= 3, "Comprehensive premise set")

\* identifyWeaknesses calling fewer than 3 premises insufficient
identifyWeaknessesBelowThree(argument, evaluation) ==
    LET w1 == PushIf(<<>>, JsLt(evaluation.logicalScore, Tenths(4)),
                     "Weak logical connection between premises and conclusion")
        w2 == PushIf(w1, JsLt(evaluation.evidenceScore, Tenths(3)), "Insufficient evidence or data")
        w3 == PushIf(w2, JsLt(evaluation.supportScore, Tenths(2)), "Lack of supporting arguments")
        w4 == PushIf(w3, JsLt(argument.confidence, Num(4)), "Low confidence level")
        w5 == PushIf(w4, Len(argument.premises.items) < 3, "Insufficient premises")
    IN  PushIf(w5, Len(argument.premises.items) = 1, "Overly dependent on single premise")

identifyWeaknesses(argument, evaluation) ==
    LET w1 == PushIf(<<>>, JsLt(evaluation.logicalScore, Tenths(4)),
                     "Weak logical connection between premises and conclusion")
        w2 == PushIf(w1, JsLt(evaluation.evidenceScore, Tenths(3)), "Insufficient evidence or data")
        w3 == PushIf(w2, JsLt(evaluation.supportScore, Tenths(2)), "Lack of supporting arguments")
        w4 == PushIf(w3, JsLt(argument.confidence, Num(4)), "Low confidence level")
        w5 == PushIf(w4, Len(argument.premises.items) < 2, "Insufficient premises")
    IN  PushIf(w5, Len(argument.premises.items) = 1, "Overly dependent on single premise")

\* logical * 0.4 + evidence * 0.3 + support * 0.3
calculateOverallScore(evaluation) ==
    LET l == evaluation.logicalScore
        e == evaluation.evidenceScore
        u == evaluation.supportScore
    IN  IF l.kind = "number" /\ e.kind = "number" /\ u.kind = "number"
        THEN Num((4 * l.val + 3 * e.val + 3 * u.val) \div 10)
        ELSE NaN

\* evaluateArgument(argument, graph), args being graph.arguments: the evaluation returned
evaluateArgument(argument, args) ==
    LET e0 == [kind |-> "evaluation", strengths |-> <<>>, weaknesses |-> <<>>,
               score |-> Num(0), supportScore |-> Num(0), logicalScore |-> Num(0),
               evidenceScore |-> Num(0)]
        e1 == [e0 EXCEPT !.logicalScore = evaluateLogicalStructure(argument)]
        e2 == [e1 EXCEPT !.evidenceScore = evaluateEvidence(argument)]
        e3 == [e2 EXCEPT !.supportScore = evaluateSupport(argument, args)]
        e4 == [e3 EXCEPT !.strengths = identifyStrengths(argument, e3)]
        e5 == [e4 EXCEPT !.weaknesses = identifyWeaknesses(argument, e4)]
    IN  [e5 EXCEPT !.score = calculateOverallScore(e5)]

----------------------------------------------------------------------------
(* Synthesizer *)

ErrStrictArguments == "Unexpected eval or arguments in strict mode"

\* Synthesizer.generateSynthesis(arguments, graph). The body of a class is strict
\* mode code, and generateSynthesis, like eight more methods of the class, names
\* a parameter `arguments`, which strict mode code must not bind: the module is
\* rejected with a SyntaxError when it is loaded, whatever the call is given, and
\* no statement of the method runs.
generateSynthesis(args) == [kind |-> "error", err |-> ErrStrictArguments]

\* The text of areClaimsConflicting, which no call reaches: the module that
\* holds it is never loaded.

\* negationIndicators.test(claim): /\b(not|no|never|none|isn't|aren't|doesn't|don't)\b/i
hasNegation(claim) ==
    LET t == LowerTokens(claim)
    IN  \/ \E i \in 1..Len(t) : t[i] \in {"not", "no", "never", "none"}
        \/ \E i \in 1..(Len(t) - 2) :
                t[i] \in {"isn", "aren", "doesn", "don"} /\ t[i + 1] = "'" /\ t[i + 2] = "t"

\* areClaimsConflicting(claim1, claim2): 2 * overlap > keywords1.length stands for
\* overlap > keywords1.length / 2
areClaimsConflicting(claim1, claim2) ==
    IF hasNegation(claim1) # hasNegation(claim2)
    THEN 2 * CountIncluded(extractKeywords(claim1), extractKeywords(claim2))
            > Len(extractKeywords(claim1))
    ELSE FALSE

----------------------------------------------------------------------------
(* DialecticalEngine *)

ErrContextPush == "Cannot read properties of undefined (reading 'push')"

ErrInvalidIds == "Invalid argument IDs for synthesis"

\* the context object getCurrentContext starts from
EmptyContext ==
    [thesis |-> <<>>, antithesis |-> <<>>, synthesis |-> <<>>, objections |-> <<>>,
     rebuttals |-> <<>>]

\* this.graph.arguments.forEach(arg => context[arg.type].push(arg.id)), from the
\* argument at the head of rest on: [context, err]. The context has no key
\* "objection" and no key "rebuttal", so context[arg.type] is undefined for an
\* argument of these types and the push throws a TypeError.
RECURSIVE PushEach(_, _)
PushEach(context, rest) ==
    IF rest = <<>> THEN [context |-> context, err |-> NoError]
    ELSE IF Head(rest).type \in {"thesis", "antithesis", "synthesis"}
         THEN PushEach([context EXCEPT ![Head(rest).type] = Append(@, Head(rest).id)], Tail(rest))
    ELSE [context |-> context, err |-> ErrContextPush]

\* getCurrentContext(currentArgument), args being this.graph.arguments: [context, err]
getCurrentContext(args) == PushEach(EmptyContext, args)

\* An engine value e is [arguments, adjacencyList, dialecticHistory, err]: the two
\* Maps of its graph, its history and the exception in flight.

\* DialecticalEngine.addArgument(argumentData)
engineAddArgument(e, argumentData, date) ==
    LET g == addArgument([arguments |-> e.arguments, adjacencyList |-> e.adjacencyList,
                          err |-> NoError], argumentData, date)
        e1 == [e EXCEPT !.arguments = g.arguments, !.adjacencyList = g.adjacencyList,
                        !.err = g.err]
        current == getCurrentContext(g.arguments)
    IN  IF g.err # NoError THEN e1
        ELSE IF current.err # NoError THEN [e1 EXCEPT !.err = current.err]
        ELSE [e1 EXCEPT !.dialecticHistory =
                Append(@, [timestamp |-> date, action |-> "added",
                           argumentId |-> argumentData.argumentId,
                           argumentType |-> argumentData.argumentType,
                           context |-> current.context])]

\* types[type] once the forEach of suggestNextArgumentType has counted
TypeCount(args, type) == Len(getArgumentsByType(args, type))

\* suggestNextArgumentType with the objection and the rebuttal rule exchanged
suggestRebuttalBeforeObjection(args) ==
    IF TypeCount(args, "thesis") = 0 THEN "thesis"
    ELSE IF TypeCount(args, "thesis") > 0 /\ TypeCount(args, "antithesis") = 0 THEN "antithesis"
    ELSE IF TypeCount(args, "thesis") > 0 /\ TypeCount(args, "antithesis") > 0
            /\ TypeCount(args, "synthesis") = 0 THEN "synthesis"
    ELSE IF TypeCount(args, "rebuttal") < TypeCount(args, "objection") THEN "rebuttal"
    ELSE IF TypeCount(args, "objection")
            < TypeCount(args, "thesis") + TypeCount(args, "antithesis") THEN "objection"
    ELSE "synthesis"

\* suggestNextArgumentType(), args being this.graph.arguments
suggestNextArgumentType(args) ==
    IF TypeCount(args, "thesis") = 0 THEN "thesis"
    ELSE IF TypeCount(args, "thesis") > 0 /\ TypeCount(args, "antithesis") = 0 THEN "antithesis"
    ELSE IF TypeCount(args, "thesis") > 0 /\ TypeCount(args, "antithesis") > 0
            /\ TypeCount(args, "synthesis") = 0 THEN "synthesis"
    ELSE IF TypeCount(args, "objection")
            < TypeCount(args, "thesis") + TypeCount(args, "antithesis") THEN "objection"
    ELSE IF TypeCount(args, "rebuttal") < TypeCount(args, "objection") THEN "rebuttal"
    ELSE "synthesis"

\* the stop words of DialecticalEngine.extractConcepts
conceptStopWords == {"the", "be", "to", "of", "and", "a", "in", "that", "is", "was", "for"}

\* [...new Set(s)]: the first occurrence of each element, in order
RECURSIVE Distinct(_)
Distinct(s) ==
    IF s = <<>> THEN <<>>
    ELSE LET front == Distinct(SubSeq(s, 1, Len(s) - 1))
         IN  IF Includes(front, s[Len(s)]) THEN front ELSE Append(front, s[Len(s)])

\* extractConcepts(premises): the distinct words longer than 3 of
\* premises.join(' ').toLowerCase().split(/\W+/) that are no stop words
extractConcepts(premises) ==
    Distinct(SelectSeq(JoinTokens(premises),
                       LAMBDA word : word \notin Punctuation /\ Len(word) > 3
                                     /\ word \notin conceptStopWords))

findSharedConcepts(premises1, premises2) ==
    SelectSeq(extractConcepts(premises1),
              LAMBDA concept : Includes(extractConcepts(premises2), concept))

\* Math.abs(x - y) < 0.3 for two confidences; false when one is no number
CloseConfidence(x, y) ==
    /\ x.kind = "number"
    /\ y.kind = "number"
    /\ (IF x.val >= y.val THEN x.val - y.val ELSE y.val - x.val) < 3

\* findResolvableDifferences(arg1, arg2), in tenths
findResolvableDifferences(arg1, arg2) ==
    (IF ~Includes(arg1.contradicts, arg2.id) /\ ~Includes(arg2.contradicts, arg1.id)
     THEN 5 ELSE 0)
    + (IF CloseConfidence(arg1.confidence, arg2.confidence) THEN 3 ELSE 0)
    + (IF Len(findSharedConcepts(arg1.premises.items, arg2.premises.items)) > 0 THEN 2 ELSE 0)

\* (strengths.length - weaknesses.length) / (strengths.length + weaknesses.length + 1) * 0.15
QualityTerm(a) ==
    ((Len(a.strengths) - Len(a.weaknesses)) * 15 * (Unit \div 100))
        \div (Len(a.strengths) + Len(a.weaknesses) + 1)

\* calculateSynthesisPotential(arg1, arg2), a score
calculateSynthesisPotential(arg1, arg2) ==
    LET shared == Len(findSharedConcepts(arg1.premises.items, arg2.premises.items))
        p1 == Num(shared * 3 * (Unit \div 10))
        p2 == Plus(p1, Num(findResolvableDifferences(arg1, arg2) * 4 * (Unit \div 100)))
        both == Plus(AsScore(arg1.confidence), AsScore(arg2.confidence))
        p3 == Plus(p2, IF both.kind = "number" THEN Num((both.val * 15) \div 100) ELSE NaN)
        p4 == Plus(p3, Num(QualityTerm(arg1) + QualityTerm(arg2)))
    IN  MathMin(p4, Num(Unit))

\* the antitheses related to a thesis
relatedAntitheses(thesis, antitheses) ==
    SelectSeq(antitheses,
              LAMBDA anti : \/ anti.respondsTo = thesis.id
                            \/ Includes(anti.contradicts, thesis.id)
                            \/ Includes(thesis.contradicts, anti.id))

\* existingSynthesis that finds no synthesis
existingSynthesisNotSought(args, thesisId, antithesisId) == FALSE

\* a stored synthesis supports both ids
existingSynthesis(args, thesisId, antithesisId) ==
    \E i \in 1..Len(args) :
        /\ args[i].type = "synthesis"
        /\ Includes(args[i].supports, thesisId)
        /\ Includes(args[i].supports, antithesisId)

\* relatedAntitheses.forEach(antithesis => ...): the candidates pushed for a thesis
RECURSIVE CandidatesOf(_, _, _)
CandidatesOf(args, thesis, related) ==
    IF related = <<>> THEN <<>>
    ELSE (IF ~existingSynthesis(args, thesis.id, Head(related).id)
          THEN <<[thesis |-> thesis.id, antithesis |-> Head(related).id,
                  potential |-> calculateSynthesisPotential(thesis, Head(related))]>>
          ELSE <<>>)
         \o CandidatesOf(args, thesis, Tail(related))

\* theses.forEach(thesis => ...): the candidates in the order they are pushed
RECURSIVE CandidatesFrom(_, _, _)
CandidatesFrom(args, theses, antitheses) ==
    IF theses = <<>> THEN <<>>
    ELSE CandidatesOf(args, Head(theses), relatedAntitheses(Head(theses), antitheses))
         \o CandidatesFrom(args, Tail(theses), antitheses)

\* sorted with x put in, after the elements whose potential is not smaller: the
\* step of a stable sort by (a, b) => b.potential - a.potential
RECURSIVE InsertByPotential(_, _)
InsertByPotential(sorted, x) ==
    IF sorted = <<>> THEN <<x>>
    ELSE IF JsGt(x.potential, Head(sorted).potential) THEN <<x>> \o sorted
    ELSE <<Head(sorted)>> \o InsertByPotential(Tail(sorted), x)

\* candidates.sort((a, b) => b.potential - a.potential)
RECURSIVE SortByPotential(_)
SortByPotential(candidates) ==
    IF candidates = <<>> THEN <<>>
    ELSE InsertByPotential(SortByPotential(SubSeq(candidates, 1, Len(candidates) - 1)),
                           candidates[Len(candidates)])

\* findSynthesisCandidates(), args being this.graph.arguments
findSynthesisCandidates(args) ==
    SortByPotential(CandidatesFrom(args, getArgumentsByType(args, "thesis"),
                                   getArgumentsByType(args, "antithesis")))

\* premises.filter(p => sharedConcepts.some(c => p.toLowerCase().includes(c))).
\* No word of the model's texts is part of another word, so a premise includes a
\* concept when the concept is one of its words.
PremisesWith(premises, sharedConcepts) ==
    SelectSeq(premises,
              LAMBDA p : \E i \in 1..Len(sharedConcepts) :
                            Includes(LowerTokens(p), sharedConcepts[i]))

\* Math.min(Math.min(x, y) + 0.1, 1): MinPlusTenth with a clamp
MinPlusTenthClamped(x, y) ==
    IF x.kind # "number" \/ y.kind # "number" THEN NaN
    ELSE Num(IF (IF x.val <= y.val THEN x.val ELSE y.val) + 1 <= 10
             THEN (IF x.val <= y.val THEN x.val ELSE y.val) + 1
             ELSE 10)

\* Math.min(x, y) + 0.1 for two confidences, in tenths
MinPlusTenth(x, y) ==
    IF x.kind # "number" \/ y.kind # "number" THEN NaN
    ELSE Num((IF x.val <= y.val THEN x.val ELSE y.val) + 1)

ErrReadPremises == "Cannot read properties of undefined (reading 'premises')"

\* generateSynthesis with the check !thesis && !antithesis: with one id unknown
\* the read of the premises throws a TypeError
engineGenerateSynthesisBothUnknown(args, thesisId, antithesisId) ==
    IF ~Has(args, thesisId) /\ ~Has(args, antithesisId)
    THEN [kind |-> "error", err |-> ErrInvalidIds]
    ELSE IF ~Has(args, thesisId) \/ ~Has(args, antithesisId)
    THEN [kind |-> "error", err |-> ErrReadPremises]
    ELSE [kind |-> "synthesis",
          claim |-> "Integration of \"" \o getArgument(args, thesisId).claim \o "\" and \""
                        \o getArgument(args, antithesisId).claim \o "\"",
          premises |-> <<>>,
          conclusion |-> "A balanced approach that incorporates strengths from both perspectives: "
                             \o getArgument(args, thesisId).conclusion \o " and "
                             \o getArgument(args, antithesisId).conclusion,
          type |-> "synthesis",
          supports |-> <<thesisId, antithesisId>>,
          confidence |-> MinPlusTenth(getArgument(args, thesisId).confidence,
                                      getArgument(args, antithesisId).confidence)]

\* DialecticalEngine.generateSynthesis(thesisId, antithesisId), args being
\* this.graph.arguments: the draft returned, or the Error thrown
engineGenerateSynthesis(args, thesisId, antithesisId) ==
    IF ~Has(args, thesisId) \/ ~Has(args, antithesisId)
    THEN [kind |-> "error", err |-> ErrInvalidIds]
    ELSE LET thesis == getArgument(args, thesisId)
             antithesis == getArgument(args, antithesisId)
             sharedConcepts == findSharedConcepts(thesis.premises.items, antithesis.premises.items)
         IN  [kind |-> "synthesis",
              claim |-> "Integration of \"" \o thesis.claim \o "\" and \""
                            \o antithesis.claim \o "\"",
              premises |-> PremisesWith(thesis.premises.items, sharedConcepts)
                           \o PremisesWith(antithesis.premises.items, sharedConcepts),
              conclusion |-> "A balanced approach that incorporates strengths from both perspectives: "
                                 \o thesis.conclusion \o " and " \o antithesis.conclusion,
              type |-> "synthesis",
              supports |-> <<thesisId, antithesisId>>,
              confidence |-> MinPlusTenth(thesis.confidence, antithesis.confidence)]

----------------------------------------------------------------------------
(* Inputs *)

BaseData ==
    [argumentId   |-> "a",
     claim        |-> "claim",
     premises     |-> Arr(<<>>),
     conclusion   |-> "conclusion",
     argumentType |-> "thesis",
     confidence   |-> Num(5),
     respondsTo   |-> Undefined,
     supports     |-> NoArr,
     contradicts  |-> NoArr,
     strengths    |-> NoArr,
     weaknesses   |-> NoArr]

\* the ids a caller's data names in supports, contradicts and respondsTo
DeclaredRefs(data) ==
    {OrEmpty(data.supports)[i] : i \in 1..Len(OrEmpty(data.supports))}
    \cup {OrEmpty(data.contradicts)[i] : i \in 1..Len(OrEmpty(data.contradicts))}
    \cup (IF Falsy(data.respondsTo) THEN {} ELSE {data.respondsTo})

\* the number of references a caller's data declares
RefCount(data) ==
    Len(OrEmpty(data.supports)) + Len(OrEmpty(data.contradicts))
    + (IF Falsy(data.respondsTo) THEN 0 ELSE 1)

\* the lists of references a caller declares
RefLists == {NoArr} \cup {Arr(s) : s \in SeqsUpTo(Ids, MaxRefs) \ {<<>>}}

\* the data given to ArgumentGraph.addArgument: valid data with every declaration
\* of at most MaxRefs references, and data that fails validation
GraphData ==
    {d \in {[BaseData EXCEPT !.argumentId = i, !.supports = s, !.contradicts = c, !.respondsTo = r] :
                i \in Ids, s \in RefLists, c \in RefLists, r \in Ids \cup {Undefined}} :
        RefCount(d) <= MaxRefs}
    \cup {[BaseData EXCEPT !.argumentType = "invalid"]}

Confidences == {Undef, NaN, Num(-1), Num(0), Num(5), Num(10), Num(11)}

\* the data given to the Argument constructor: the data that passes validation
\* (every type, with and without confidence, strengths and weaknesses; the other
\* accepted confidences; a premise), and the base data with one field missing,
\* empty or out of range
ValidArgData ==
    {[BaseData EXCEPT !.argumentType = t, !.confidence = c, !.strengths = s, !.weaknesses = w] :
        t \in {validTypes[i] : i \in 1..Len(validTypes)},
        c \in {Undef, Num(5)},
        s \in {NoArr, Arr(<<"strength">>)},
        w \in {NoArr, Arr(<<"weakness">>)}}
    \cup {[BaseData EXCEPT !.confidence = c] : c \in {NaN, Num(0), Num(10)}}
    \cup {[BaseData EXCEPT !.premises = Arr(<<"premise">>)]}

InvalidArgData ==
    {[BaseData EXCEPT !.argumentId = v] : v \in {Undefined, ""}}
    \cup {[BaseData EXCEPT !.claim = v] : v \in {Undefined, ""}}
    \cup {[BaseData EXCEPT !.premises = NoArr]}
    \cup {[BaseData EXCEPT !.conclusion = v] : v \in {Undefined, ""}}
    \cup {[BaseData EXCEPT !.argumentType = v] : v \in {Undefined, "", "invalid"}}
    \cup {[BaseData EXCEPT !.confidence = v] : v \in {Num(-1), Num(11)}}

ArgData == ValidArgData \cup InvalidArgData

----------------------------------------------------------------------------
(* The graph as a state machine *)

NoArgument == [Argument(BaseData, 0) EXCEPT !.id = Undefined]

\* the data recorded for a call that takes none
NoData == [BaseData EXCEPT !.argumentId = Undefined]

\* The record of a call: the operation, the id it was made on, the message of
\* the Error thrown (NoError for a normal return), and what the call saw and
\* did: had (the id was stored before the call), dangling (the data named an id
\* that was not stored before the call), changed (the call changed the object it
\* was made on), data (the data given to the Argument constructor), input (the
\* ids given to a query that takes several).
Call(op, a, err, changed) ==
    [op |-> op, a |-> a, err |-> err, had |-> FALSE, dangling |-> FALSE,
     changed |-> changed, data |-> NoData, input |-> <<>>]

NoCall == Call("none", Undefined, NoError, FALSE)

\* the value of result when the last call was no query
NoResult == [kind |-> "none"]

Graph == [arguments |-> arguments, adjacencyList |-> adjacencyList, err |-> NoError]

\* the call that ended with the graph value g changed one of the two Maps
GraphChanged(g) == g.arguments # arguments \/ g.adjacencyList # adjacencyList

\* the targets of the edges of a relationship record
Targets(rel) ==
    {rel.supports[i] : i \in 1..Len(rel.supports)}
    \cup {rel.contradicts[i] : i \in 1..Len(rel.contradicts)}
    \cup (IF rel.respondsTo = Null THEN {} ELSE {rel.respondsTo})

\* the number of edges of a relationship table
RECURSIVE EdgeCount(_)
EdgeCount(adj) ==
    IF DOMAIN adj = {} THEN 0
    ELSE LET id == CHOOSE x \in DOMAIN adj : TRUE
             rest == [x \in DOMAIN adj \ {id} |-> adj[x]]
         IN  Len(adj[id].supports) + Len(adj[id].contradicts)
             + (IF adj[id].respondsTo = Null THEN 0 ELSE 1) + EdgeCount(rest)

Init ==
    /\ arguments = <<>>
    /\ adjacencyList = <<>>
    /\ inserted = {}
    /\ last = NoCall
    /\ arg = NoArgument
    /\ now = 0
    /\ dialecticHistory = <<>>
    /\ result = NoResult
    /\ stack = <<>>

\* In each action g (or r) is the value the call ends with.

\* graph.addArgument(data); the clock stands still in the graph's state machine
AddArgument(data) ==
    \E g \in {addArgument(Graph, data, now)} :
    /\ arguments' = g.arguments
    /\ adjacencyList' = g.adjacencyList
    /\ inserted' = IF g.err = NoError THEN inserted \cup {data.argumentId} ELSE inserted
    /\ last' = [Call("addArgument", data.argumentId, g.err, GraphChanged(g))
                   EXCEPT !.had = Has(arguments, data.argumentId),
                          !.dangling = \E r \in DeclaredRefs(data) : ~Has(arguments, r)]
    /\ UNCHANGED <<arg, now>>
    /\ UNCHANGED stack
    /\ result' = NoResult
    /\ UNCHANGED dialecticHistory

AddSupportsRelationship(a, b) ==
    \E g \in {addSupportsRelationship(Graph, a, b)} :
    /\ EdgeCount(g.adjacencyList) <= MaxEdges
    /\ arguments' = g.arguments
    /\ adjacencyList' = g.adjacencyList
    /\ last' = Call("addSupportsRelationship", a, g.err, GraphChanged(g))
    /\ UNCHANGED <<inserted, arg, now>>
    /\ UNCHANGED stack
    /\ result' = NoResult
    /\ UNCHANGED dialecticHistory

AddContradictsRelationship(a, b) ==
    \E g \in {addContradictsRelationship(Graph, a, b)} :
    /\ EdgeCount(g.adjacencyList) <= MaxEdges
    /\ arguments' = g.arguments
    /\ adjacencyList' = g.adjacencyList
    /\ last' = Call("addContradictsRelationship", a, g.err, GraphChanged(g))
    /\ UNCHANGED <<inserted, arg, now>>
    /\ UNCHANGED stack
    /\ result' = NoResult
    /\ UNCHANGED dialecticHistory

AddRespondsToRelationship(a, b) ==
    \E g \in {addRespondsToRelationship(Graph, a, b)} :
    /\ EdgeCount(g.adjacencyList) <= MaxEdges
    /\ arguments' = g.arguments
    /\ adjacencyList' = g.adjacencyList
    /\ last' = Call("addRespondsToRelationship", a, g.err, GraphChanged(g))
    /\ UNCHANGED <<inserted, arg, now>>
    /\ UNCHANGED stack
    /\ result' = NoResult
    /\ UNCHANGED dialecticHistory

\* the graph is serialized to the interchange shape and a new graph is rebuilt
\* from it; the graph itself is left alone
ExportImport ==
    \E g \in {Import(Export(Graph), now)} :
    /\ UNCHANGED stack
    /\ result' = [kind |-> "graph", arguments |-> g.arguments,
                  adjacencyList |-> g.adjacencyList, err |-> g.err]
    /\ last' = Call("export, import", Undefined, g.err, FALSE)
    /\ UNCHANGED <<graphVars, arg, now, dialecticHistory>>

Next ==
    \/ ExportImport
    \/ \E data \in GraphData : AddArgument(data)
    \/ \E a, b \in Ids : AddSupportsRelationship(a, b)
    \/ \E a, b \in Ids : AddContradictsRelationship(a, b)
    \/ \E a, b \in Ids : AddRespondsToRelationship(a, b)

Spec == Init /\ [][Next]_vars

----------------------------------------------------------------------------
(* One Argument object as a state machine *)

\* the values new Date() can return at the next call: time passes or not
Dates == {t \in {now, now + 1} : t <= MaxClock}

\* arg = new Argument(data); a constructor that throws assigns nothing
Construct(data) ==
    \E date \in Dates :
        /\ now' = date
        /\ arg' = IF validateArgument(data) = NoError THEN Argument(data, date) ELSE arg
        /\ last' = [Call("new Argument", data.argumentId, validateArgument(data), arg' # arg)
                       EXCEPT !.data = data]
        /\ UNCHANGED stack
        /\ result' = NoResult
        /\ UNCHANGED graphVars
        /\ UNCHANGED dialecticHistory

UpdateConfidence(newConfidence) ==
    \E date \in Dates :
        \E r \in {updateConfidence(arg, newConfidence, date)} :
        /\ arg.id # Undefined
        /\ now' = date
        /\ arg' = r.arg
        /\ last' = Call("updateConfidence", arg.id, r.err, r.arg # arg)
        /\ UNCHANGED stack
        /\ result' = NoResult
        /\ UNCHANGED graphVars
        /\ UNCHANGED dialecticHistory

AddStrength(strength) ==
    \E date \in Dates :
        \E r \in {addStrength(arg, strength, date)} :
        /\ arg.id # Undefined
        /\ Len(arg.strengths) < MaxNotes
        /\ now' = date
        /\ arg' = r.arg
        /\ last' = Call("addStrength", arg.id, r.err, r.arg # arg)
        /\ UNCHANGED stack
        /\ result' = NoResult
        /\ UNCHANGED graphVars
        /\ UNCHANGED dialecticHistory

AddWeakness(weakness) ==
    \E date \in Dates :
        \E r \in {addWeakness(arg, weakness, date)} :
        /\ arg.id # Undefined
        /\ Len(arg.weaknesses) < MaxNotes
        /\ now' = date
        /\ arg' = r.arg
        /\ last' = Call("addWeakness", arg.id, r.err, r.arg # arg)
        /\ UNCHANGED stack
        /\ result' = NoResult
        /\ UNCHANGED graphVars
        /\ UNCHANGED dialecticHistory

NextArg ==
    \/ \E data \in ArgData : Construct(data)
    \/ \E c \in Confidences : UpdateConfidence(c)
    \/ AddStrength("strength")
    \/ AddWeakness("weakness")

SpecArg == Init /\ [][NextArg]_vars

----------------------------------------------------------------------------
(* findPaths on a graph of three arguments *)

\* most edges the relationship table holds when findPaths is called
MaxPathEdges == 4

\* the ids of the three arguments, in the order the caller inserts them
PathOrder == <<"a", "b", "c">>

PathIds == {PathOrder[i] : i \in 1..Len(PathOrder)}

\* the data of an argument that declares no reference
PathData(id) == [BaseData EXCEPT !.argumentId = id]

\* graph.addArgument(PathData(id)), for the next id of PathOrder
PathAddArgument(id) ==
    \E g \in {addArgument(Graph, PathData(id), now)} :
    /\ Len(arguments) < Len(PathOrder)
    /\ id = PathOrder[Len(arguments) + 1]
    /\ arguments' = g.arguments
    /\ adjacencyList' = g.adjacencyList
    /\ inserted' = IF g.err = NoError THEN inserted \cup {id} ELSE inserted
    /\ last' = Call("addArgument", id, g.err, GraphChanged(g))
    /\ UNCHANGED stack
    /\ result' = NoResult
    /\ UNCHANGED <<arg, now, dialecticHistory>>

\* graph.addSupportsRelationship(a, b), addContradictsRelationship(a, b) or
\* addRespondsToRelationship(a, b), by kind. The caller responds to the first
\* argument, supports the second and contradicts the third, so that every
\* directed graph on the three arguments is built, with the three kinds of edge.
PathAddRelationship(kind, a, b) ==
    \E g \in {IF kind = "respondsTo"
              THEN addRespondsToRelationship(Graph, a, b)
              ELSE addRelationship(kind, Graph, a, b)} :
    /\ EdgeCount(g.adjacencyList) <= MaxPathEdges
    /\ arguments' = g.arguments
    /\ adjacencyList' = g.adjacencyList
    /\ last' = Call(kind, a, g.err, GraphChanged(g))
    /\ UNCHANGED stack
    /\ result' = NoResult
    /\ UNCHANGED <<inserted, arg, now, dialecticHistory>>

\* graph.findPaths(startId, endId), for two stored ids
FindPaths(startId, endId) ==
    /\ Has(arguments, startId)
    /\ Has(arguments, endId)
    /\ UNCHANGED stack
    /\ result' = [kind |-> "paths", startId |-> startId, endId |-> endId,
                  paths |-> findPaths(adjacencyList, startId, endId, {})]
    /\ last' = Call("findPaths", startId, NoError, FALSE)
    /\ UNCHANGED <<graphVars, arg, now, dialecticHistory>>

NextPaths ==
    \/ \E id \in PathIds : PathAddArgument(id)
    \/ \E a \in PathIds : PathAddRelationship("respondsTo", a, PathOrder[1])
    \/ \E a \in PathIds : PathAddRelationship("supports", a, PathOrder[2])
    \/ \E a \in PathIds : PathAddRelationship("contradicts", a, PathOrder[3])
    \/ \E startId, endId \in PathIds : FindPaths(startId, endId)

SpecPaths == Init /\ [][NextPaths]_vars

----------------------------------------------------------------------------
(* findPaths step by step: one frame per call that has not returned *)

\* most frames of the stack after a step
MaxDepth == 4

\* A frame is [startId, endId, visited, rest, paths]: the two ids of the call, its
\* visited set, the part of allConnected its loop has not looked at, and the
\* paths it has pushed.

\* the frame of a call without visited.add(startId)
FrameWithoutAdd(adj, startId, endId, visited) ==
    [startId |-> startId, endId |-> endId, visited |-> visited,
     rest |-> allConnected(adj, startId), paths |-> <<>>]

\* the frame of a call findPaths(startId, endId, visited), for startId # endId, when
\* it enters its loop; visited is the copy handed to the call
Frame(adj, startId, endId, visited) ==
    [startId |-> startId, endId |-> endId, visited |-> visited \cup {startId},
     rest |-> allConnected(adj, startId), paths |-> <<>>]

\* the frame after subpaths.forEach(subpath => paths.push([startId, ...subpath]))
Pushed(frame, subpaths) ==
    [frame EXCEPT !.paths = @ \o [i \in 1..Len(subpaths) |-> <<frame.startId>> \o subpaths[i]]]

\* the stack with its innermost frame replaced
WithTop(frames, frame) == [frames EXCEPT ![Len(frames)] = frame]

\* graph.findPaths(startId, endId) is called, for stored and for unknown ids: it
\* returns at once when the two ids are equal, and enters its loop otherwise
FindPathsCall(startId, endId) ==
    /\ stack = <<>>
    /\ stack' = IF startId = endId THEN <<>>
                ELSE <<Frame(adjacencyList, startId, endId, {})>>
    /\ result' = IF startId = endId
                 THEN [kind |-> "paths", startId |-> startId, endId |-> endId,
                       paths |-> << <<startId>> >>]
                 ELSE NoResult
    /\ last' = [Call("findPaths", startId, NoError, FALSE) EXCEPT !.input = <<startId, endId>>]
    /\ UNCHANGED <<graphVars, arg, now, dialecticHistory>>

\* the innermost call returns its paths: to its caller, which pushes them, or, for
\* the outermost call, to the caller of findPaths
FindPathsReturn ==
    /\ stack # <<>>
    /\ stack[Len(stack)].rest = <<>>
    /\ stack' = IF Len(stack) = 1 THEN <<>>
                ELSE WithTop(SubSeq(stack, 1, Len(stack) - 1),
                             Pushed(stack[Len(stack) - 1], stack[Len(stack)].paths))
    /\ result' = IF Len(stack) = 1
                 THEN [kind |-> "paths", startId |-> stack[1].startId, endId |-> stack[1].endId,
                       paths |-> stack[1].paths]
                 ELSE result
    /\ UNCHANGED <<graphVars, last, arg, now, dialecticHistory>>

\* one turn of the loop of the innermost call: nextId is skipped when it is
\* visited; otherwise findPaths(nextId, endId, new Set(visited)) is called, which
\* returns [[nextId]] at once when nextId is endId and enters its loop otherwise
FindPathsLoop ==
    /\ stack # <<>>
    /\ stack[Len(stack)].rest # <<>>
    /\ LET top == stack[Len(stack)]
           nextId == Head(top.rest)
           turned == [top EXCEPT !.rest = Tail(@)]
       IN  stack' = IF nextId \in top.visited THEN WithTop(stack, turned)
                    ELSE IF nextId = top.endId
                         THEN WithTop(stack, Pushed(turned, << <<nextId>> >>))
                    ELSE Append(WithTop(stack, turned),
                                Frame(adjacencyList, nextId, top.endId, top.visited))
    /\ Len(stack') <= MaxDepth
    /\ UNCHANGED <<graphVars, last, arg, now, dialecticHistory, result>>

\* the graph is built while no call of findPaths is running
NextSteps ==
    \/ /\ stack = <<>>
       /\ \/ \E id \in PathIds : PathAddArgument(id)
          \/ \E a \in PathIds : PathAddRelationship("respondsTo", a, PathOrder[1])
          \/ \E a \in PathIds : PathAddRelationship("supports", a, PathOrder[2])
          \/ \E a \in PathIds : PathAddRelationship("contradicts", a, PathOrder[3])
    \/ \E startId, endId \in PathIds \cup {UnknownId} : FindPathsCall(startId, endId)
    \/ FindPathsReturn
    \/ FindPathsLoop

SpecSteps == Init /\ [][NextSteps]_vars

\* findPaths is synchronous code: a call that has begun runs on
SpecStepsFair == SpecSteps /\ WF_vars(FindPathsReturn \/ FindPathsLoop)

----------------------------------------------------------------------------
(* Evaluator.evaluateArgument on a graph of three arguments *)

\* most premises of an evaluated argument
MaxPremises == 3

\* the premises an evaluated argument is given are the first ones of this list
EvalPremiseTexts ==
    <<"taxes fund schools", "50% of schools may close (Smith 2020)",
      "everyone says either taxes or schools", "premise", "premise">>

EvalPremises == {SubSeq(EvalPremiseTexts, 1, k) : k \in 0..MaxPremises}

EvalIds == {"a", "b", "c"}

\* the data given to addArgument: an argument b with a text, with and without a
\* keyword in its conclusion; a supporter a of b, with and without a confidence;
\* and an argument c that contradicts or supports b
EvalData ==
    {[BaseData EXCEPT !.argumentId = "b", !.claim = "Taxes fund schools", !.premises = Arr(p),
                      !.conclusion = c, !.confidence = f] :
        p \in EvalPremises, c \in {"it is", "taxes fund schools"}, f \in {Num(3), Num(9)}}
    \cup {[BaseData EXCEPT !.argumentId = "a", !.supports = Arr(<<"b">>), !.confidence = f] :
            f \in {Undef, Num(5)}}
    \cup {[BaseData EXCEPT !.argumentId = "c", !.contradicts = Arr(<<"b">>)],
          [BaseData EXCEPT !.argumentId = "c", !.supports = Arr(<<"b">>), !.confidence = Num(10)]}

\* evaluateArgument assigns to its local evaluation only: the graph after the call
evaluateArgumentStoring(g, argument, evaluation) ==
    [g EXCEPT !.arguments = MapSet(@, [argument EXCEPT !.strengths = evaluation.strengths,
                                                       !.weaknesses = evaluation.weaknesses])]

evaluateArgumentEffect(g, argument, evaluation) == g

\* Evaluator.evaluateArgument(graph.getArgument(id), graph), for a stored id
EvaluateArgument(id) ==
    /\ Has(arguments, id)
    /\ \E evaluation \in {evaluateArgument(getArgument(arguments, id), arguments)} :
       \E g \in {evaluateArgumentEffect(Graph, getArgument(arguments, id), evaluation)} :
        /\ arguments' = g.arguments
        /\ adjacencyList' = g.adjacencyList
        /\ UNCHANGED stack
        /\ result' = evaluation
        /\ last' = Call("evaluateArgument", id, NoError, GraphChanged(g))
        /\ UNCHANGED <<inserted, arg, now, dialecticHistory>>

NextEval ==
    \/ \E data \in EvalData : AddArgument(data)
    \/ \E id \in EvalIds : EvaluateArgument(id)

SpecEval == Init /\ [][NextEval]_vars

----------------------------------------------------------------------------
(* The DialecticalEngine, with the Evaluator and the Synthesizer, as a state machine *)

\* most arguments given to DialecticalEngine.addArgument
MaxArguments == 3

\* the ids of the arguments, in the order the caller adds them
EngineOrder == <<"a", "b", "c", "d", "e", "f", "g", "h", "i">>

\* the premises the caller gives to an argument of a type
EnginePremises(type) ==
    IF type = "thesis" THEN Arr(<<"taxes fund schools">>)
    ELSE IF type = "antithesis" THEN Arr(<<"50% of schools may close (Smith 2020)">>)
    ELSE Arr(<<>>)

\* the data of the k-th argument without a reference, of a type
TypedData(k, type) ==
    [BaseData EXCEPT !.argumentId = EngineOrder[k], !.argumentType = type,
                     !.premises = EnginePremises(type)]

\* the data the caller gives for the k-th argument: each type without a
\* reference; from the second argument on a thesis or antithesis that responds
\* to the first argument or contradicts it; from the third on a synthesis that
\* supports the first two
EngineData(k) ==
    {TypedData(k, validTypes[i]) : i \in 1..Len(validTypes)}
    \cup (IF k < 2 THEN {}
          ELSE {[TypedData(k, t) EXCEPT !.respondsTo = EngineOrder[1]] : t \in {"thesis", "antithesis"}}
               \cup {[TypedData(k, t) EXCEPT !.contradicts = Arr(<<EngineOrder[1]>>)] :
                        t \in {"thesis", "antithesis"}})
    \cup (IF k < 3 THEN {}
          ELSE {[TypedData(k, "synthesis") EXCEPT !.supports = Arr(<<EngineOrder[1], EngineOrder[2]>>)]})

Engine ==
    [arguments |-> arguments, adjacencyList |-> adjacencyList,
     dialecticHistory |-> dialecticHistory, err |-> NoError]

\* the call that ended with the engine value e changed the graph or the history
EngineChanged(e) ==
    \/ e.arguments # arguments
    \/ e.adjacencyList # adjacencyList
    \/ e.dialecticHistory # dialecticHistory

\* the step changes the graph or the history of the engine
QueryChanged ==
    \/ arguments' # arguments
    \/ adjacencyList' # adjacencyList
    \/ dialecticHistory' # dialecticHistory

\* engine.addArgument(data); the clock stands still
EngineAddArgument(data) ==
    \E e \in {engineAddArgument(Engine, data, now)} :
    /\ arguments' = e.arguments
    /\ adjacencyList' = e.adjacencyList
    /\ dialecticHistory' = e.dialecticHistory
    /\ inserted' = IF e.err \in {NoError, ErrContextPush}
                   THEN inserted \cup {data.argumentId}
                   ELSE inserted
    /\ last' = [Call("DialecticalEngine.addArgument", data.argumentId, e.err, EngineChanged(e))
                   EXCEPT !.had = Has(arguments, data.argumentId)]
    /\ UNCHANGED stack
    /\ result' = NoResult
    /\ UNCHANGED <<arg, now>>

\* engine.suggestNextArgumentType()
SuggestNextArgumentType ==
    /\ UNCHANGED stack
    /\ result' = [kind |-> "suggestion", type |-> suggestNextArgumentType(arguments)]
    /\ UNCHANGED <<graphVars, arg, now, dialecticHistory>>
    /\ last' = Call("suggestNextArgumentType", Undefined, NoError, QueryChanged)

\* engine.findSynthesisCandidates()
FindSynthesisCandidates ==
    /\ UNCHANGED stack
    /\ result' = [kind |-> "candidates", candidates |-> findSynthesisCandidates(arguments)]
    /\ UNCHANGED <<graphVars, arg, now, dialecticHistory>>
    /\ last' = Call("findSynthesisCandidates", Undefined, NoError, QueryChanged)

\* engine.generateSynthesis(thesisId, antithesisId)
EngineGenerateSynthesis(thesisId, antithesisId) ==
    \E draft \in {engineGenerateSynthesis(arguments, thesisId, antithesisId)} :
    /\ UNCHANGED stack
    /\ result' = draft
    /\ UNCHANGED <<graphVars, arg, now, dialecticHistory>>
    /\ last' = [Call("DialecticalEngine.generateSynthesis", thesisId,
                     IF draft.kind = "error" THEN draft.err ELSE NoError, QueryChanged)
                   EXCEPT !.input = <<thesisId, antithesisId>>]

\* Synthesizer.generateSynthesis(args, engine.graph), args being the first n
\* stored arguments
SynthesizerGenerateSynthesis(n) ==
    \E synthesis \in {generateSynthesis(SubSeq(arguments, 1, n))} :
    /\ n <= Len(arguments)
    /\ UNCHANGED stack
    /\ result' = synthesis
    /\ UNCHANGED <<graphVars, arg, now, dialecticHistory>>
    /\ last' = [Call("Synthesizer.generateSynthesis", Undefined,
                     IF synthesis.kind = "error" THEN synthesis.err ELSE NoError, QueryChanged)
                   EXCEPT !.input = [i \in 1..n |-> arguments[i].id]]

NextEngine ==
    \/ /\ Len(arguments) < MaxArguments
       /\ \E data \in EngineData(Len(arguments) + 1) : EngineAddArgument(data)
    \/ SuggestNextArgumentType
    \/ FindSynthesisCandidates
    \/ \E thesisId \in {EngineOrder[1], UnknownId} : \E antithesisId \in {EngineOrder[2], UnknownId} :
        EngineGenerateSynthesis(thesisId, antithesisId)
    \/ \E n \in 0..MaxArguments : SynthesizerGenerateSynthesis(n)
    \/ EvaluateArgument(EngineOrder[1])

SpecEngine == Init /\ [][NextEngine]_vars

----------------------------------------------------------------------------
(* Synthesizer.generateSynthesis on arguments with different claims *)

\* the claims the caller gives: without and with a negation word, of one, two,
\* three and four keywords
SynthClaims == {"claim", "taxes fund", "taxes fund schools", "no taxes fund schools well"}

\* the data of the k-th argument
SynthData(k) == {[BaseData EXCEPT !.argumentId = EngineOrder[k], !.claim = c] : c \in SynthClaims}

NextSynth ==
    \/ /\ Len(arguments) < MaxArguments
       /\ \E data \in SynthData(Len(arguments) + 1) : EngineAddArgument(data)
    \/ \E n \in 0..MaxArguments : SynthesizerGenerateSynthesis(n)

SpecSynth == Init /\ [][NextSynth]_vars

----------------------------------------------------------------------------
(* suggestNextArgumentType on an engine with up to seven arguments *)

\* most arguments of the engine asked for a suggestion
MaxSuggested == 7

\* the position of a type in validTypes
TypeIndex(type) == CHOOSE i \in 1..Len(validTypes) : validTypes[i] = type

\* the types the caller gives to the next argument: the caller adds the theses
\* first, then the antitheses, the syntheses, the objections and the rebuttals
NextTypes ==
    {t \in {validTypes[i] : i \in 1..Len(validTypes)} :
        arguments = <<>> \/ TypeIndex(arguments[Len(arguments)].type) <= TypeIndex(t)}

NextSuggest ==
    \/ /\ Len(arguments) < MaxSuggested
       /\ \E t \in NextTypes :
            EngineAddArgument([BaseData EXCEPT !.argumentId = EngineOrder[Len(arguments) + 1],
                                               !.argumentType = t])
    \/ SuggestNextArgumentType

SpecSuggest == Init /\ [][NextSuggest]_vars

----------------------------------------------------------------------------
(* calculateSynthesisPotential on an engine with a thesis and an antithesis *)

\* the confidences the caller gives: 0, 0.3, 0.9 and 1
PotentialConfidences == {Num(0), Num(3), Num(9), Num(10)}

\* the strengths (weaknesses) the caller gives: none, or one
PotentialNotes(note) == {NoArr, Arr(<<note>>)}

\* the data of the thesis a: with and without a premise, with each confidence,
\* with and without a strength and a weakness
ThesisData ==
    {[BaseData EXCEPT !.argumentId = "a", !.premises = Arr(p), !.confidence = c,
                      !.strengths = s, !.weaknesses = w] :
        p \in {<<>>, <<"taxes fund schools">>}, c \in PotentialConfidences,
        s \in PotentialNotes("strength"), w \in PotentialNotes("weakness")}

\* the data of the antithesis b, which responds to the thesis or contradicts it:
\* without a premise, with a premise that shares one concept with the thesis's
\* and with the thesis's premise
AntithesisData ==
    {[BaseData EXCEPT !.argumentId = "b", !.argumentType = "antithesis", !.premises = Arr(p),
                      !.confidence = c, !.strengths = s, !.weaknesses = w,
                      !.respondsTo = r[1], !.contradicts = r[2]] :
        p \in {<<>>, <<"50% of schools may close (Smith 2020)">>, <<"taxes fund schools">>},
        c \in PotentialConfidences,
        s \in PotentialNotes("strength"), w \in PotentialNotes("weakness"),
        r \in {<<"a", NoArr>>, <<Undefined, Arr(<<"a">>)>>}}

\* the construction data a caller makes of a draft: the fields of the draft, the
\* id the caller gives it and the argumentType the caller gives it (Undefined
\* when the caller adds none: the draft names its type in the field type)
DraftData(draft, id, argumentType) ==
    [argumentId   |-> id,
     claim        |-> draft.claim,
     premises     |-> Arr(draft.premises),
     conclusion   |-> draft.conclusion,
     argumentType |-> argumentType,
     confidence   |-> draft.confidence,
     respondsTo   |-> Undefined,
     supports     |-> Arr(draft.supports),
     contradicts  |-> NoArr,
     strengths    |-> NoArr,
     weaknesses   |-> NoArr]

\* engine.graph.addArgument({...draft, argumentId: id}), or with argumentType
\* added, draft being the draft the last call returned and id a fresh id
AddArgumentFromDraft(id, argumentType) ==
    /\ result.kind = "synthesis"
    /\ ~Has(arguments, id)
    /\ \E g \in {addArgument(Graph, DraftData(result, id, argumentType), now)} :
        /\ arguments' = g.arguments
        /\ adjacencyList' = g.adjacencyList
        /\ inserted' = IF g.err = NoError THEN inserted \cup {id} ELSE inserted
        /\ last' = [Call("addArgument", id, g.err, GraphChanged(g))
                       EXCEPT !.data = DraftData(result, id, argumentType),
                              !.input = result.supports]
        /\ UNCHANGED stack
        /\ result' = NoResult
        /\ UNCHANGED <<arg, now, dialecticHistory>>

NextPotential ==
    \/ /\ arguments = <<>>
       /\ \E data \in ThesisData : EngineAddArgument(data)
    \/ /\ Len(arguments) = 1
       /\ \E data \in AntithesisData : EngineAddArgument(data)
    \/ FindSynthesisCandidates
    \/ EngineGenerateSynthesis("a", "b")
    \/ \E argumentType \in {Undefined, "synthesis"} : AddArgumentFromDraft("c", argumentType)

SpecPotential == Init /\ [][NextPotential]_vars

----------------------------------------------------------------------------
(* Properties of ArgumentGraph, checked under Spec *)

\* s is an initial segment of t
IsPrefix(s, t) == Len(s) <= Len(t) /\ \A i \in 1..Len(s) : s[i] = t[i]

\* the last call was addArgument
AfterAddArgument == last.op = "addArgument"

\* every stored argument was stored by an addArgument call that returned normally
NoFailedInsertion == StoredIds(arguments) = inserted

\* no stored argument declares a reference to itself
NoSelfReference ==
    \A i \in 1..Len(arguments) :
        /\ arguments[i].respondsTo # arguments[i].id
        /\ ~Includes(arguments[i].supports, arguments[i].id)
        /\ ~Includes(arguments[i].contradicts, arguments[i].id)

\* C1: addArgument with data that names, in supports, contradicts or respondsTo,
\* an id that is not in the graph at the moment of the call (the id of the new
\* argument included) fails with the unknown-reference error. Stated for data
\* that passes validation and whose own id is not stored, the two failures that
\* come before the references are looked at.
C1_UnknownReferenceFails ==
    (AfterAddArgument /\ last.dangling /\ ~last.had /\ last.err \notin ValidationErrors)
        => last.err = ErrBothMustExist

\* C2: an addArgument call that fails with the unknown-reference error leaves the
\* argument map and the relationship table as they were before the call.
C2_FailedAddArgumentNotApplied ==
    (AfterAddArgument /\ last.err = ErrBothMustExist) => ~last.changed

\* C3: when addArgument(Y) has just succeeded and X, which references only Y, has
\* never been inserted successfully, addArgument(X) succeeds and the relationship
\* table then holds the edge X -> Y.
C3_ReferencedThenReferencing ==
    [][\A x \in GraphData :
        (/\ AfterAddArgument /\ last.err = NoError
         /\ validateArgument(x) = NoError
         /\ DeclaredRefs(x) = {last.a}
         /\ x.argumentId # last.a
         /\ x.argumentId \notin inserted
         /\ AddArgument(x))
        => (/\ last'.err = NoError
            /\ last.a \in Targets(adjacencyList'[x.argumentId]))]_vars

\* C4: addArgument with an id that is already stored fails, with the duplicate-id
\* error when the data passes validation, and changes neither the argument map
\* (the argument stored for that id included) nor the relationship table; the
\* ids of the argument map are unique.
C4_DuplicateIdRejected ==
    /\ Cardinality(StoredIds(arguments)) = Len(arguments)
    /\ (AfterAddArgument /\ last.had)
        => (/\ last.err # NoError
            /\ last.err \notin ValidationErrors => last.err = ErrAlreadyExists
            /\ ~last.changed)

\* a stored id is given to addArgument again, with valid data, and is rejected
C4_DuplicateRejected ==
    AfterAddArgument /\ last.had /\ last.err = ErrAlreadyExists /\ Len(arguments) = 2

\* C5: getSupporters(id) returns exactly the arguments that have a supports edge
\* to id in the relationship table. Stated for the graphs in which every stored
\* argument was stored by an addArgument call that returned normally.
C5_SupportersAreSupportsEdges ==
    NoFailedInsertion
        => \A id \in Ids :
            StoredIds(getSupporters(arguments, id))
                = {x \in DOMAIN adjacencyList : Includes(adjacencyList[x].supports, id)}

\* C6: an edge of the relationship table is never removed or changed: over every
\* step the supports and contradicts lists of an id only grow at their end and
\* a respondsTo edge, once set, stays as it is. Stated for the steps from a graph
\* whose arguments were all stored by calls that returned normally and declare
\* no reference to themselves.
C6_EdgesNeverRemoved ==
    [][(NoFailedInsertion /\ NoSelfReference) =>
        \A x \in DOMAIN adjacencyList :
            /\ x \in DOMAIN adjacencyList'
            /\ IsPrefix(adjacencyList[x].supports, adjacencyList'[x].supports)
            /\ IsPrefix(adjacencyList[x].contradicts, adjacencyList'[x].contradicts)
            /\ adjacencyList[x].respondsTo # Null
                => adjacencyList'[x].respondsTo = adjacencyList[x].respondsTo]_vars

\* C7, as claimed: every edge of the relationship table points to an argument
\* inserted strictly earlier than its source. Stated for the graphs whose
\* arguments were all stored by calls that returned normally and declare no
\* reference to themselves.
C7_EdgesPointEarlier ==
    (NoFailedInsertion /\ NoSelfReference)
    => \A x \in DOMAIN adjacencyList : \A y \in Targets(adjacencyList[x]) :
            Has(arguments, y) /\ IndexOf(arguments, y) < IndexOf(arguments, x)

\* C7, as amended: every edge of the relationship table joins two arguments of
\* the argument map.
C7_EdgesJoinStoredArguments ==
    \A x \in DOMAIN adjacencyList :
        Has(arguments, x) /\ \A y \in Targets(adjacencyList[x]) : Has(arguments, y)

\* a relationship-add call has made an edge to an argument inserted after its source
C7_ForwardEdge ==
    /\ last.op = "addSupportsRelationship" /\ last.err = NoError
    /\ \E x \in DOMAIN adjacencyList : \E i \in 1..Len(adjacencyList[x].supports) :
        IndexOf(arguments, adjacencyList[x].supports[i]) > IndexOf(arguments, x)

\* the last step serialized the graph and rebuilt it
AfterExportImport == last.op = "export, import"

\* C25: serializing a graph to the interchange shape (one record per argument
\* with all its fields, one {from, to, type} entry per edge) and rebuilding a new
\* graph by addArgument for each record, in insertion order, and then the
\* relationship-add call for each entry gives the same arguments and the same
\* edges, each edge as many times as in the original. Stated for the graphs
\* whose arguments were all stored by calls that returned normally and declare
\* no reference to themselves.
C25_RoundTrip ==
    (AfterExportImport /\ NoFailedInsertion /\ NoSelfReference) =>
        /\ result.err = NoError
        /\ result.arguments = arguments
        /\ result.adjacencyList = adjacencyList

\* the round trip gives the same arguments and edges for the graphs in which no
\* argument declares a supports or a contradicts reference
RoundTripWithoutDeclaredReferences ==
    (AfterExportImport /\ NoFailedInsertion
            /\ \A i \in 1..Len(arguments) :
                    arguments[i].supports = <<>> /\ arguments[i].contradicts = <<>>) =>
        /\ result.err = NoError
        /\ result.arguments = arguments
        /\ result.adjacencyList = adjacencyList

\* C29: in every reachable state of the graph the argument map and the
\* relationship table have the same ids, every target of an edge of the
\* relationship table is an id of the argument map, and no step removes a
\* stored id.
C29_MapAndTableAgree ==
    /\ [](/\ StoredIds(arguments) = DOMAIN adjacencyList
          /\ \A x \in DOMAIN adjacencyList : Targets(adjacencyList[x]) \subseteq StoredIds(arguments))
    /\ [][StoredIds(arguments) \subseteq StoredIds(arguments')]_vars

\* the graph holds two arguments, one of them stored by an addArgument call that
\* threw for an unknown reference, and an edge
C29_AfterPartialInsertion ==
    /\ ~NoFailedInsertion
    /\ Len(arguments) = 2
    /\ EdgeCount(adjacencyList) >= 1
    /\ StoredIds(arguments) = DOMAIN adjacencyList

----------------------------------------------------------------------------
(* Properties of Argument, checked under SpecArg *)

\* the last call was the constructor
AfterConstruct == last.op = "new Argument"

\* an Argument has been constructed
Constructed == arg.id # Undefined

\* the data lacks a required field or names a type that is none of the five
LacksRequired(d) ==
    \/ Falsy(d.argumentId)
    \/ Falsy(d.claim)
    \/ Falsy(d.conclusion)
    \/ Falsy(d.argumentType)
    \/ ~Includes(validTypes, d.argumentType)

\* construction with data that lacks a required field or names an invalid type
\* fails with a validation error and creates nothing; a valid type is never
\* the reason of a failure and is stored as given
TypeAndRequiredFieldsChecked ==
    AfterConstruct =>
        /\ LacksRequired(last.data) => (last.err \in ValidationErrors /\ ~last.changed)
        /\ Includes(validTypes, last.data.argumentType)
            => last.err \notin {ErrTypeRequired, ErrInvalidType}
        /\ last.err = NoError => arg.type = last.data.argumentType

\* C8: a constructed Argument, after any updateConfidence calls, has a confidence
\* that is a number within [0, 1].
C8_ConfidenceInRange ==
    Constructed =>
        /\ arg.confidence.kind = "number"
        /\ 0 <= arg.confidence.val
        /\ arg.confidence.val <= 10

OnlyPremisesMissing(d) ==
    ~d.premises.isArray /\ validateArgument([d EXCEPT !.premises = Arr(<<>>)]) = NoError

\* C10, as claimed: construction without premises succeeds and yields the empty
\* sequence of premises.
C10_PremisesDefaultEmpty ==
    (AfterConstruct /\ OnlyPremisesMissing(last.data))
        => (last.err = NoError /\ arg.premises = Arr(<<>>))

\* C10, as amended: the premises of a constructed Argument are a sequence, the
\* one the data supplies; construction without premises fails with the
\* validation error "Premises must be an array" and creates nothing.
C10_PremisesRequired ==
    /\ Constructed => arg.premises.isArray
    /\ AfterConstruct =>
        /\ OnlyPremisesMissing(last.data) => (last.err = ErrPremisesArray /\ ~last.changed)
        /\ last.err = NoError => (last.data.premises.isArray /\ arg.premises = last.data.premises)

\* construction without premises has been rejected, an Argument built before being kept
C10_ConstructionWithoutPremisesRejected ==
    AfterConstruct /\ last.err = ErrPremisesArray /\ Constructed

----------------------------------------------------------------------------
(* Properties of findPaths, checked under SpecPaths *)

\* the relationship table has an edge from x to y
HasEdge(adj, x, y) == x \in DOMAIN adj /\ y \in Targets(adj[x])

\* the simple paths from startId to endId: the sequences of distinct ids that
\* begin at startId, end at endId and follow an edge at each step
SimplePaths(adj, startId, endId) ==
    {p \in SeqsUpTo(PathIds, Len(PathOrder)) :
        /\ p # <<>>
        /\ p[1] = startId
        /\ p[Len(p)] = endId
        /\ \A i, j \in 1..Len(p) : p[i] = p[j] => i = j
        /\ \A i \in 1..(Len(p) - 1) : HasEdge(adj, p[i], p[i + 1])}

\* C11: findPaths(start, end), for two ids of the graph, returns exactly the
\* simple paths from start to end over the outgoing supports, contradicts and
\* respondsTo edges: every returned path is such a path and every such path is
\* returned.
C11_FindPathsSimplePaths ==
    last.op = "findPaths"
        => {result.paths[i] : i \in 1..Len(result.paths)}
            = SimplePaths(adjacencyList, result.startId, result.endId)

\* findPaths has returned two paths, one of them through a third argument, on a
\* graph where an edge leads back to the start
C11_TwoPathsAndCycle ==
    /\ last.op = "findPaths"
    /\ Len(result.paths) = 2
    /\ \E i \in 1..2 : Len(result.paths[i]) = 3
    /\ \E x \in PathIds \ {result.startId} : HasEdge(adjacencyList, x, result.startId)

----------------------------------------------------------------------------
(* Properties of Evaluator, checked under SpecEval *)

\* the last call was evaluateArgument
AfterEvaluate == last.op = "evaluateArgument"

\* the argument the last call was made on
Evaluated == getArgument(arguments, last.a)

\* x is a number within [0, 1]
InUnitInterval(x) == x.kind = "number" /\ 0 <= x.val /\ x.val <= Unit

\* every stored argument has a confidence that is a number within [0, 1]
ConfidencesAreNumbers ==
    \A i \in 1..Len(arguments) :
        /\ arguments[i].confidence.kind = "number"
        /\ 0 <= arguments[i].confidence.val
        /\ arguments[i].confidence.val <= 10

\* C12: each of logicalScore, evidenceScore, supportScore and score of an
\* evaluation is a number within [0, 1], also when the conclusion of the argument
\* has no keyword. Stated for the graphs whose arguments all have a confidence
\* within [0, 1].
C12_ScoresInUnitInterval ==
    (AfterEvaluate /\ ConfidencesAreNumbers)
        => /\ InUnitInterval(result.logicalScore)
           /\ InUnitInterval(result.evidenceScore)
           /\ InUnitInterval(result.supportScore)
           /\ InUnitInterval(result.score)

\* the stored arguments whose supports (contradicts) list contains id
SupportersOf(id) == {i \in 1..Len(arguments) : Includes(arguments[i].supports, id)}

ContradictorsOf(id) == {i \in 1..Len(arguments) : Includes(arguments[i].contradicts, id)}

\* the sum of the confidences, in tenths, of the arguments at the positions I
RECURSIVE SumOfConfidences(_)
SumOfConfidences(I) ==
    IF I = {} THEN 0
    ELSE LET i == CHOOSE x \in I : TRUE
         IN  arguments[i].confidence.val + SumOfConfidences(I \ {i})

\* the smaller and the larger of two integers
Min(x, y) == IF x <= y THEN x ELSE y

Max(x, y) == IF x >= y THEN x ELSE y

\* clamp01(min(|S| * 0.2, 0.6) - min(|C| * 0.15, 0.45) + avgConfidence(S) * 0.2)
\* in units of 1/Unit, the average of no confidence being 0
SupportFormula(id) ==
    LET S == SupportersOf(id)
        C == ContradictorsOf(id)
        avgFifth == IF S = {} THEN 0
                    ELSE (SumOfConfidences(S) * (Unit \div 10)) \div (5 * Cardinality(S))
    IN  Max(0, Min(Unit, Min(Cardinality(S) * 20 * (Unit \div 100), 60 * (Unit \div 100))
                         - Min(Cardinality(C) * 15 * (Unit \div 100), 45 * (Unit \div 100))
                         + avgFifth))

\* C13: the supportScore of an evaluation of B is the number
\* clamp01(min(|S|*0.2, 0.6) - min(|C|*0.15, 0.45) + avgConfidence(S)*0.2), S and C
\* being the arguments whose supports and contradicts list contains B's id.
\* Stated for the graphs whose arguments were all stored by calls that returned
\* normally.
C13_SupportScoreFormula ==
    (AfterEvaluate /\ NoFailedInsertion)
        => /\ result.supportScore.kind = "number"
           /\ result.supportScore.val = SupportFormula(last.a)

----------------------------------------------------------------------------
(* Properties of the DialecticalEngine, the Evaluator and the Synthesizer,
   checked under SpecEngine *)

\* the calls that derive a result
QueryOps ==
    {"evaluateArgument", "Synthesizer.generateSynthesis", "suggestNextArgumentType",
     "findSynthesisCandidates", "DialecticalEngine.generateSynthesis"}

ErrTooFewArguments == "Synthesis requires at least 2 arguments"

\* the last call was Synthesizer.generateSynthesis
AfterSynthesizer == last.op = "Synthesizer.generateSynthesis"

\* C16: Synthesizer.generateSynthesis fails when given 0 or 1 arguments; given 2
\* or more valid arguments it returns a draft whose type is synthesis and whose
\* supports are the ids of the given arguments, in their order.
C16_SynthesisDraft ==
    AfterSynthesizer =>
        IF Len(last.input) < 2
        THEN result.kind = "error"
        ELSE /\ result.kind = "synthesis"
             /\ result.synthesis.type = "synthesis"
             /\ result.synthesis.supports = last.input

\* the sum of the confidences, in tenths, of the arguments with the given ids
RECURSIVE SumOfInputConfidences(_)
SumOfInputConfidences(ids) ==
    IF ids = <<>> THEN 0
    ELSE getArgument(arguments, Head(ids)).confidence.val + SumOfInputConfidences(Tail(ids))

\* C17: the confidence of the draft built by Synthesizer.generateSynthesis from at
\* least 2 arguments with confidences within [0, 1] is
\* avg(confidences)*0.4 + min(|sharedThemes|*0.1, 0.3)
\* + min(|complementary pairs|*0.05, 0.2) - min(|irreconcilable pairs|*0.1, 0.3),
\* clamped to [0, 1], the three counts being those of the analysis returned.
C17_SynthesisConfidenceFormula ==
    (AfterSynthesizer /\ Len(last.input) >= 2 /\ ConfidencesAreNumbers) =>
        /\ result.kind = "synthesis"
        /\ result.synthesis.confidence.kind = "number"
        /\ result.synthesis.confidence.val =
            Max(0, Min(Unit,
                (SumOfInputConfidences(last.input) * 4 * (Unit \div 100)) \div Len(last.input)
                + Min(Len(result.analysis.sharedThemes) * 10 * (Unit \div 100), 30 * (Unit \div 100))
                + Min(Len(result.analysis.complementaryPremises) * 5 * (Unit \div 100),
                      20 * (Unit \div 100))
                - Min(Len(result.analysis.irreconcilableDifferences) * 10 * (Unit \div 100),
                      30 * (Unit \div 100))))

\* the ids of the arguments of a type among the first n stored arguments, in
\* insertion order
IdsOfType(n, type) ==
    LET ofType == getArgumentsByType(SubSeq(arguments, 1, n), type)
    IN  [i \in 1..Len(ofType) |-> ofType[i].id]

\* C18: the history has one record per argument of the engine's graph, in
\* insertion order, and the context of each record maps each of the five types
\* to the ids of the arguments of that type in the graph when the argument was
\* added.
C18_HistoryRecordsEveryArgument ==
    /\ Len(dialecticHistory) = Len(arguments)
    /\ \A i \in 1..Len(dialecticHistory) :
        /\ dialecticHistory[i].action = "added"
        /\ dialecticHistory[i].argumentId = arguments[i].id
        /\ dialecticHistory[i].argumentType = arguments[i].type
        /\ dialecticHistory[i].context.thesis = IdsOfType(i, "thesis")
        /\ dialecticHistory[i].context.antithesis = IdsOfType(i, "antithesis")
        /\ dialecticHistory[i].context.synthesis = IdsOfType(i, "synthesis")
        /\ dialecticHistory[i].context.objections = IdsOfType(i, "objection")
        /\ dialecticHistory[i].context.rebuttals = IdsOfType(i, "rebuttal")

\* the relationship table has a respondsTo or a contradicts edge from x to y
RespondsOrContradicts(x, y) ==
    /\ x \in DOMAIN adjacencyList
    /\ \/ adjacencyList[x].respondsTo = y
       \/ Includes(adjacencyList[x].contradicts, y)

\* the relationship table has a supports edge from the k-th argument to y
HasEdgeOfSupport(k, y) ==
    /\ arguments[k].id \in DOMAIN adjacencyList
    /\ Includes(adjacencyList[arguments[k].id].supports, y)

\* the (thesis, antithesis) pairs of the graph of which one responds to the other
\* or contradicts it, and that no synthesis of the graph supports both
SynthesisPairs ==
    {p \in StoredIds(arguments) \X StoredIds(arguments) :
            /\ getArgument(arguments, p[1]).type = "thesis"
            /\ getArgument(arguments, p[2]).type = "antithesis"
            /\ RespondsOrContradicts(p[1], p[2]) \/ RespondsOrContradicts(p[2], p[1])
            /\ ~\E k \in 1..Len(arguments) :
                    /\ arguments[k].type = "synthesis"
                    /\ HasEdgeOfSupport(k, p[1])
                    /\ HasEdgeOfSupport(k, p[2])}

\* C20: findSynthesisCandidates returns, sorted by descending potential, exactly
\* the (thesis, antithesis) pairs of the graph of which one responds to the other
\* or contradicts it (in either direction) and that no synthesis of the graph
\* supports both.
C20_CandidatesAreRelatedPairs ==
    last.op = "findSynthesisCandidates" =>
        /\ {<<result.candidates[i].thesis, result.candidates[i].antithesis>> :
                i \in 1..Len(result.candidates)} = SynthesisPairs
        /\ \A i, j \in 1..Len(result.candidates) :
                i < j => ~JsLt(result.candidates[i].potential, result.candidates[j].potential)

\* the last call was DialecticalEngine.generateSynthesis
AfterEngineSynthesis == last.op = "DialecticalEngine.generateSynthesis"

\* C23: DialecticalEngine.generateSynthesis(thesisId, antithesisId) fails with the
\* unknown-reference error (Invalid argument IDs for synthesis) whenever one of
\* the two ids is not in the engine's graph, and otherwise returns a draft of
\* type synthesis whose supports is <<thesisId, antithesisId>>.
C23_SynthesisOfKnownIds ==
    AfterEngineSynthesis =>
        IF ~Has(arguments, last.input[1]) \/ ~Has(arguments, last.input[2])
        THEN last.err = ErrInvalidIds /\ result.kind = "error"
        ELSE /\ last.err = NoError
             /\ result.kind = "synthesis"
             /\ result.type = "synthesis"
             /\ result.supports = last.input

\* generateSynthesis has failed for an unknown thesis id and a stored antithesis id
C23_UnknownThesisRejected ==
    /\ AfterEngineSynthesis
    /\ ~Has(arguments, last.input[1])
    /\ Has(arguments, last.input[2])
    /\ last.err = ErrInvalidIds

\* a synthesis of the graph has both ids in its supports
SupportedBySynthesis(thesisId, antithesisId) ==
    \E k \in 1..Len(arguments) :
        /\ arguments[k].type = "synthesis"
        /\ Includes(arguments[k].supports, thesisId)
        /\ Includes(arguments[k].supports, antithesisId)

\* the (thesis, antithesis) pairs of a list of candidates
PairsOf(candidates) ==
    {<<candidates[i].thesis, candidates[i].antithesis>> : i \in 1..Len(candidates)}

\* C28: once a synthesis whose supports contains both the thesis t and the
\* antithesis a has been inserted, no result of findSynthesisCandidates contains
\* the pair (t, a): no returned pair is supported by a stored synthesis, and a
\* stored synthesis stays stored with its supports. A call of
\* DialecticalEngine.generateSynthesis, whose result is not inserted, leaves the
\* pairs findSynthesisCandidates returns as they were.
C28_ExclusionByInsertionOnly ==
    /\ [](last.op = "findSynthesisCandidates" =>
            \A p \in PairsOf(result.candidates) : ~SupportedBySynthesis(p[1], p[2]))
    /\ [][\A k \in 1..Len(arguments) :
            arguments[k].type = "synthesis" =>
                /\ k <= Len(arguments')
                /\ arguments'[k].type = "synthesis"
                /\ arguments'[k].supports = arguments[k].supports]_vars
    /\ [][last'.op = "DialecticalEngine.generateSynthesis" =>
            PairsOf(findSynthesisCandidates(arguments'))
                = PairsOf(findSynthesisCandidates(arguments))]_vars

\* findSynthesisCandidates has returned no pair for a thesis and an antithesis
\* that responds to it, a synthesis that supports both having been inserted
C28_SynthesisedPairExcluded ==
    /\ last.op = "findSynthesisCandidates"
    /\ result.candidates = <<>>
    /\ \E t, a \in StoredIds(arguments) :
        /\ getArgument(arguments, t).type = "thesis"
        /\ getArgument(arguments, a).type = "antithesis"
        /\ getArgument(arguments, a).respondsTo = t
        /\ SupportedBySynthesis(t, a)

----------------------------------------------------------------------------
(* Properties of suggestNextArgumentType, checked under SpecSuggest *)

\* the number of stored arguments of a type
CountOf(type) == Cardinality({i \in 1..Len(arguments) : arguments[i].type = type})

\* the type the first matching rule gives on the current counts
FirstMatchingRule ==
    IF CountOf("thesis") = 0 THEN "thesis"
    ELSE IF CountOf("antithesis") = 0 THEN "antithesis"
    ELSE IF CountOf("synthesis") = 0 THEN "synthesis"
    ELSE IF CountOf("objection") < CountOf("thesis") + CountOf("antithesis") THEN "objection"
    ELSE IF CountOf("rebuttal") < CountOf("objection") THEN "rebuttal"
    ELSE "synthesis"

\* C19: suggestNextArgumentType returns the result of the first matching rule on
\* the current type counts: thesis if there is no thesis; else antithesis if
\* there is no antithesis; else synthesis if there is no synthesis; else
\* objection if objections < theses + antitheses; else rebuttal if rebuttals <
\* objections; else synthesis.
C19_SuggestionFollowsRules ==
    last.op = "suggestNextArgumentType" => result.type = FirstMatchingRule

\* the suggestion has fallen through every rule: each type is present, the
\* objections are as many as the theses and antitheses, the rebuttals as the
\* objections
C19_FallbackSuggested ==
    /\ last.op = "suggestNextArgumentType"
    /\ result.type = "synthesis"
    /\ CountOf("synthesis") > 0
    /\ CountOf("objection") >= CountOf("thesis") + CountOf("antithesis")
    /\ CountOf("rebuttal") >= CountOf("objection")
    /\ CountOf("thesis") > 0
    /\ CountOf("antithesis") > 0

----------------------------------------------------------------------------
(* Properties of calculateSynthesisPotential, checked under SpecPotential *)

\* the last call was findSynthesisCandidates
AfterCandidates == last.op = "findSynthesisCandidates"

\* the concepts of an argument: the words of more than 3 letters of its premises
\* that are no stop words
ConceptsOf(a) ==
    {w \in UNION {{LowerTokens(a.premises.items[i])[j] :
                        j \in 1..Len(LowerTokens(a.premises.items[i]))} :
                    i \in 1..Len(a.premises.items)} :
        w \notin Punctuation /\ Len(w) > 3 /\ w \notin conceptStopWords}

\* the number of concepts two arguments share
SharedConceptCount(x, y) == Cardinality(ConceptsOf(x) \cap ConceptsOf(y))

\* resolvableDifferences in tenths: 0.5 if neither contradicts the other, plus 0.3
\* if the confidences differ by less than 0.3, plus 0.2 if they share a concept
ResolvableDifferences(x, y) ==
    (IF ~Includes(x.contradicts, y.id) /\ ~Includes(y.contradicts, x.id) THEN 5 ELSE 0)
    + (IF Max(x.confidence.val, y.confidence.val) - Min(x.confidence.val, y.confidence.val) < 3
       THEN 3 ELSE 0)
    + (IF SharedConceptCount(x, y) >= 1 THEN 2 ELSE 0)

\* qualityDelta * 0.15 / 2 of an argument, in units of 1/Unit
HalfQualityTerm(x) ==
    ((Len(x.strengths) - Len(x.weaknesses)) * 15 * (Unit \div 200))
        \div (Len(x.strengths) + Len(x.weaknesses) + 1)

\* sharedConceptCount*0.3 + resolvableDifferences*0.4 + avgConfidence*0.15
\* + avgQualityDelta*0.15 in units of 1/Unit, the averages being the means over
\* the pair
PotentialFormula(x, y) ==
    SharedConceptCount(x, y) * 30 * (Unit \div 100)
    + ResolvableDifferences(x, y) * 4 * (Unit \div 100)
    + ((x.confidence.val + y.confidence.val) * 15 * (Unit \div 100)) \div 20
    + HalfQualityTerm(x) + HalfQualityTerm(y)

\* C21: the potential of a candidate pair is
\* min(1, sharedConceptCount*0.3 + resolvableDifferences*0.4 + avgConfidence*0.15
\* + avgQualityDelta*0.15), avgConfidence being the mean of the two confidences
\* and avgQualityDelta the mean of (|strengths| - |weaknesses|) /
\* (|strengths| + |weaknesses| + 1) over the pair.
C21_PotentialIsFormula ==
    AfterCandidates =>
        \A i \in 1..Len(result.candidates) :
            LET x == getArgument(arguments, result.candidates[i].thesis)
                y == getArgument(arguments, result.candidates[i].antithesis)
            IN  /\ result.candidates[i].potential.kind = "number"
                /\ result.candidates[i].potential.val = Min(Unit, PotentialFormula(x, y))

\* C22: for arguments with confidences within [0, 1] and any strengths,
\* weaknesses and relationships, the potential of every candidate is a number
\* within [0, 1].
C22_PotentialInUnitInterval ==
    (AfterCandidates /\ ConfidencesAreNumbers) =>
        \A i \in 1..Len(result.candidates) : InUnitInterval(result.candidates[i].potential)

\* the potential of every candidate is the formula of C21 with the sum of the
\* two confidences and the sum of the two quality deltas in place of the means
PotentialIsFormulaOfSums ==
    AfterCandidates =>
        \A i \in 1..Len(result.candidates) :
            LET x == getArgument(arguments, result.candidates[i].thesis)
                y == getArgument(arguments, result.candidates[i].antithesis)
            IN  result.candidates[i].potential
                = Num(Min(Unit, PotentialFormula(x, y)
                                + ((x.confidence.val + y.confidence.val) * 15 * (Unit \div 100)) \div 20
                                + HalfQualityTerm(x) + HalfQualityTerm(y)))

\* C24: the draft DialecticalEngine.generateSynthesis returns has the confidence
\* min(thesis.confidence, antithesis.confidence) + 0.1, without a clamp: it is
\* above 1 when both confidences are above 0.9, and 1.0 when the smaller one is
\* 0.9.
C24_DraftConfidenceUnclamped ==
    (AfterEngineSynthesis /\ result.kind = "synthesis" /\ ConfidencesAreNumbers) =>
        LET x == getArgument(arguments, last.input[1]).confidence.val
            y == getArgument(arguments, last.input[2]).confidence.val
        IN  /\ result.confidence.kind = "number"
            /\ result.confidence.val = Min(x, y) + 1
            /\ (x > 9 /\ y > 9) => result.confidence.val > 10
            /\ Min(x, y) = 9 => result.confidence.val = 10

\* a draft has been returned for two arguments of confidence 1: its confidence is 1.1
C24_DraftConfidenceAboveOne ==
    /\ AfterEngineSynthesis
    /\ result.kind = "synthesis"
    /\ getArgument(arguments, last.input[1]).confidence = Num(10)
    /\ getArgument(arguments, last.input[2]).confidence = Num(10)
    /\ result.confidence = Num(11)

\* the last call was graph.addArgument on a draft with a fresh id
AfterDraftAdded == last.op = "addArgument" /\ last.input # <<>>

\* C26: a draft made by DialecticalEngine.generateSynthesis (or by
\* Synthesizer.generateSynthesis) from arguments of the graph, given a fresh id
\* and passed to addArgument on that graph, is accepted: it passes validation and
\* its supports resolve.
C26_DraftAccepted ==
    AfterDraftAdded => last.err = NoError /\ Has(arguments, last.a)

\* a draft passed with its type named as argumentType is rejected only for its
\* confidence, and only when that is above 1
DraftWithTypeAccepted ==
    (AfterDraftAdded /\ last.data.argumentType = "synthesis") =>
        IF JsGt(last.data.confidence, Num(10))
        THEN last.err = ErrConfidenceRange
        ELSE last.err = NoError

----------------------------------------------------------------------------
(* Properties of the Synthesizer's pairwise analysis, checked under SpecSynth *)

\* the keywords of a claim
KeywordsOf(claim) == {extractKeywords(claim)[i] : i \in 1..Len(extractKeywords(claim))}

\* exactly one of the two claims contains a negation word, and the two claims
\* share more than half as many keywords as the claim with fewer keywords has
ConflictingClaims(claim1, claim2) ==
    /\ hasNegation(claim1) # hasNegation(claim2)
    /\ 2 * Cardinality(KeywordsOf(claim1) \cap KeywordsOf(claim2))
            > Min(Cardinality(KeywordsOf(claim1)), Cardinality(KeywordsOf(claim2)))

\* C27: the analysis of Synthesizer.generateSynthesis flags a pair of arguments
\* as conflicting exactly when exactly one of the two claims contains a negation
\* word and the claims share more than half as many keywords as the claim with
\* fewer keywords has, whatever the order of the two.
C27_ConflictingClaimsFlagged ==
    (AfterSynthesizer /\ Len(last.input) >= 2) =>
        /\ result.kind = "synthesis"
        /\ \A i, j \in 1..Len(last.input) :
            i < j =>
                ((\E k \in 1..Len(result.analysis.conflictingClaims) :
                    /\ result.analysis.conflictingClaims[k].arg1Id = last.input[i]
                    /\ result.analysis.conflictingClaims[k].arg2Id = last.input[j])
                 <=> ConflictingClaims(getArgument(arguments, last.input[i]).claim,
                                       getArgument(arguments, last.input[j]).claim))

\* the text of areClaimsConflicting gives the same answer for the two orders of
\* a pair of claims
AreClaimsConflictingSymmetric ==
    \A claim1, claim2 \in SynthClaims :
        areClaimsConflicting(claim1, claim2) = areClaimsConflicting(claim2, claim1)

----------------------------------------------------------------------------
(* Properties of the steps of findPaths, checked under SpecStepsFair *)

\* C30: findPaths(start, end) terminates on every reachable graph, with
\* self-loops, cycles and repeated edges, and for ids that are not in the graph:
\* every call that has begun returns, and the calls that have not returned are
\* never more than the stored arguments (one for an unknown start).
C30_FindPathsTerminates ==
    /\ (stack # <<>>) ~> (stack = <<>>)
    /\ [](Len(stack) <= Len(arguments) \/ Len(stack) <= 1)

\* three calls of findPaths are running on a graph with a cycle through their
\* three arguments, one of which has an edge to itself
C30_ThreeDeepInCycle ==
    /\ Len(stack) = 3
    /\ HasEdge(adjacencyList, stack[3].startId, stack[1].startId)
    /\ \E x \in PathIds : HasEdge(adjacencyList, x, x)

\* the paths a call returns step by step are those of findPaths
StepsReturnFindPaths ==
    (last.op = "findPaths" /\ stack = <<>> /\ result.kind = "paths") =>
        result.paths = findPaths(adjacencyList, last.input[1], last.input[2], {})

====
